---------------------------- MODULE Spec2Model ----------------------------
(***************************************************************************)
(* Verification model of the Optolithium numerical core (OptolithiumC).    *)
(*                                                                         *)
(* The module holds one state machine per component.  Every component      *)
(* starts in its "not yet built" state and is exercised by its own         *)
(* specification (SpecStack, SpecPeb, ...), which leaves the variables of  *)
(* the other components untouched.                                         *)
(*                                                                         *)
(* Floating-point quantities are modelled by exact integers:               *)
(*   - wavelengths and direction cosines are drawn from small integer sets;*)
(*   - a reflection vector is the record of the inputs it was computed     *)
(*     from (layer list, cx^2+cy^2, wavelength);                           *)
(*   - convolution kernels are integer weights over a common denominator.  *)
(***************************************************************************)
EXTENDS Integers, Naturals, Sequences, FiniteSets, TLC

(***************************************************************************)
(* Bounds of the model                                                     *)
(***************************************************************************)
MaxLayers == 3
MaxRows == 2
MaxCols == 3
MaxSlices == 3
MaxCoord == 2
MaxPoints == 4
MaxCount == 530
MaxCalls == 5
MaxSize == 6
MaxOrder == 7
MaxSigma4 == 12
MaxStepUnits == 1535
MantBits == 8
MaxPitch4 == 72
MaxThick4 == 24
MaxDepth == 5
MaxRate == 2
MaxPhi == 2
MaxLen == 3
MaxX == 5
MaxY == 2
MaxLog2Dim == 1
MaxExp == 5

(***************************************************************************)
(* ============================ WaferStack =============================   *)
(* src/OptolithiumC/src/opl_capi.cpp, src/OptolithiumC/include/opl_capi.h  *)
(***************************************************************************)
VARIABLES
    layers,                      \* WaferStack::_layers, index 1 is the top
    resist,                      \* WaferStack::_resist
    substrate,                   \* WaferStack::_substrate
    environment,                 \* WaferStack::_environment
    cached_top_reflections,      \* map (cx, cy) -> vector
    cached_bottom_reflections,   \* map (cx, cy) -> vector
    cached_wavelength,           \* WaferStack::_cached_wavelength
    stack_ret                    \* what the last WaferStack call did

stack_vars == <<layers, resist, substrate, environment, cached_top_reflections,
                cached_bottom_reflections, cached_wavelength, stack_ret>>

(***************************************************************************)
(* Post-exposure-bake diffusion (peb_latent_image)                         *)
(***************************************************************************)
VARIABLES
    peb_pc,          \* position in peb_latent_image: idle, start, x, y, done
    peb_dims,        \* <<n_rows, n_cols, n_slices>> of the cube
    peb_input,       \* *latent_image->values()
    peb_output,      \* *result->values(), numerators over peb_scale
    peb_scale,       \* common denominator of peb_output
    peb_kernels,     \* <<kernelx, kernely, kernelz>>, integer weights
    peb_uword        \* width in bits of arma::uword in this build

peb_vars == <<peb_pc, peb_dims, peb_input, peb_output, peb_scale, peb_kernels,
              peb_uword>>

(***************************************************************************)
(* PolygonGeometry                                                         *)
(***************************************************************************)
VARIABLES
    poly_edges,      \* AbstractGeometry::_edges
    poly_axis,       \* AbstractGeometry::_axis
    poly_ret         \* what the last geometry call did

poly_vars == <<poly_edges, poly_axis, poly_ret>>

(***************************************************************************)
(* FFT library: dispatch by length, plan and twiddle cache                 *)
(***************************************************************************)
VARIABLES
    disp_count,      \* plan->count handed to fft_mixed_radix
    disp_algo,       \* the branch fft_mixed_radix takes
    disp_factor,     \* prime_factor of fft_split_radix (0 outside the split)
    disp_radix_indx  \* imp_radix_indx of fft_split_radix

disp_vars == <<disp_count, disp_algo, disp_factor, disp_radix_indx>>

VARIABLES
    fft_plan,        \* the struct fft_plan_t of the one plan followed
    fft_heap         \* the blocks MALLOC'ed for that plan and not yet FREE'd

plan_vars == <<fft_plan, fft_heap>>

(***************************************************************************)
(* Eikonal solver and aerial-image order placement                         *)
(***************************************************************************)
VARIABLES
    eik_calls,       \* number of FMM_EIKONAL_SOLVE_EIKONAL_EQUATION calls made
    eik_heap,        \* blocks acquired by those calls and not released
    eik_ret,         \* order and status of the last call
    ord_ret          \* the last order copied into efield: sizes, order, cell

eik_vars == <<eik_calls, eik_heap, eik_ret>>
ord_vars == <<ord_ret>>

(***************************************************************************)
(* PEB kernel length                                                       *)
(***************************************************************************)
VARIABLES
    kern_ret         \* sigma, step and length of the last kernel built

kern_vars == <<kern_ret>>

(***************************************************************************)
(* ResistVolume grid                                                       *)
(***************************************************************************)
VARIABLES
    vol_ret          \* the arguments and the fields of the ResistVolume built

vol_vars == <<vol_ret>>

(***************************************************************************)
(* Development time cube                                                   *)
(***************************************************************************)
VARIABLES
    dev_rates,       \* development rate of every slice of the column, bottom first
    dev_phi,         \* the cube returned by develop_time_contours
    dev_status       \* fast-marching status of every grid point at return

dev_vars == <<dev_rates, dev_phi, dev_status>>

(***************************************************************************)
(* Eikonal grid point update                                               *)
(***************************************************************************)
VARIABLES
    upd_ret          \* arguments, branch, phi written, return value and
                     \* stderr output of the last grid point update

upd_vars == <<upd_ret>>

(***************************************************************************)
(* Linear interpolation                                                    *)
(***************************************************************************)
VARIABLES
    li1,             \* the LinearInterpolation1d object and its constructor call
    li2,             \* the LinearInterpolation2d constructor call
    li_ret           \* the last LinearInterpolation1d::interpolate(double) call
li_vars == <<li1, li2, li_ret>>


(***************************************************************************)
(* Edge2d::cross_type                                                      *)
(***************************************************************************)
VARIABLES
    cross_ret        \* the edges and the result of the last cross_type call
cross_vars == <<cross_ret>>


VARIABLES
    x2_plan,         \* the 2D plan: in, out, tmpbuf (buffer names), dims, ...
    x2_mem,          \* contents of the buffers: name -> sequence of <<re, im>>
    x2_ret           \* the last call on the plan and what the caller's input held

x2_vars == <<x2_plan, x2_mem, x2_ret>>

VARIABLES
    mp_ret           \* the last call of modpow: arguments and returned value

mp_vars == <<mp_ret>>

VARIABLES
    tw_plan,         \* the 1D plan whose cache is watched: count, direction, flags
    tw_cache,        \* the tree of plan->cache[0]: path -> node (count, data)
    tw_ret           \* the twiddles read through the cache by the last execute

tw_vars == <<tw_plan, tw_cache, tw_ret>>

vars == <<stack_vars, peb_vars, poly_vars, disp_vars, plan_vars, eik_vars, ord_vars, kern_vars, vol_vars, dev_vars, upd_vars, li_vars, cross_vars, x2_vars, mp_vars, tw_vars>>

\* layer_type_t
ENVIRONMENT_LAYER == "ENVIRONMENT_LAYER"
RESIST_LAYER == "RESIST_LAYER"
MATERIAL_LAYER == "MATERIAL_LAYER"
SUBSTRATE_LAYER == "SUBSTRATE_LAYER"
LayerTypes == {ENVIRONMENT_LAYER, RESIST_LAYER, MATERIAL_LAYER, SUBSTRATE_LAYER}

\* a null shared_ptr
NullLayer == "nullptr"

\* the wavelengths and direction cosines (cx, cy) the queries are made with
Wavelengths == {193, 248}
Directions == {<<0, 0>>, <<1, 0>>}

is_environment(layer) == layer = ENVIRONMENT_LAYER
is_resist(layer) == layer = RESIST_LAYER
is_material(layer) == layer = MATERIAL_LAYER
is_substrate(layer) == layer = SUBSTRATE_LAYER

\* A reflection vector, represented by what it was computed from.
\* kind "none" stands for "no vector" (nothing returned, the call threw).
\* assigned is the set of entries the calculation has written.
NoVector == [kind |-> "none", of |-> <<>>, cxy2 |-> 0, wavelength |-> 0,
             assigned |-> {}]

\* _calc_effective_top_reflections: reads refractive_indexes(0), (1) and
\* writes reflections(0), then k = 1 .. size-2.  With a single layer the
\* read of refractive_indexes(1) is out of bounds.
CalcEffectiveTopReflections(ls, cxy2, wavelength) ==
    IF Len(ls) < 2 THEN NoVector
    ELSE [kind |-> "top", of |-> ls, cxy2 |-> cxy2, wavelength |-> wavelength,
          assigned |-> 0..(Len(ls) - 2)]

\* _calc_effective_bottom_reflections: bottom = size-1 (uint32_t); writes
\* reflections(bottom-1), then loops k = bottom-2 down to 1 with an unsigned
\* k.  With one layer bottom-1 wraps and is out of bounds; with two layers
\* bottom-2 wraps to 2^32-1, the loop is entered and indexes out of bounds.
\*
\* A uint32_t value u is written as the integer v, -2^31 < v < 2^31, with
\* u = v mod 2^32: a negative v stands for 2^32 + v, which no vector length
\* reaches.  An access is <<index, "r">> or <<index, "w">>; reflections and
\* refractive_indexes have size entries each and armadillo checks every
\* index against that size.
InBounds(v, size) == 0 <= v /\ v < size

\* The passes of the loop from k on: the accesses of each pass, up to and
\* including the pass that fails the bounds check.  `k >= 1` is false for
\* k == 0 only.
RECURSIVE BottomLoop(_, _)
BottomLoop(k, size) ==
    IF k = 0 THEN <<>>
    ELSE IF ~InBounds(k, size) \/ ~InBounds(k + 1, size)
    THEN <<<<k + 1, "r">>, <<k, "r">>, <<k, "w">>>>
    ELSE <<<<k + 1, "r">>, <<k, "r">>, <<k, "w">>>> \o BottomLoop(k - 1, size)

\* every access of _calc_effective_bottom_reflections, in order, up to the
\* first statement that throws
BottomAccesses(size) ==
    LET bottom == size - 1
        Fails(acc) == \E i \in 1..Len(acc) : ~InBounds(acc[i][1], size)
        first == <<<<bottom - 1, "r">>, <<bottom, "r">>, <<bottom - 1, "w">>>>
        loop == BottomLoop(bottom - 2, size)
    IN  IF Fails(first) THEN first
        ELSE IF Fails(loop) THEN first \o loop
        ELSE first \o loop \o <<<<0, "r">>, <<1, "r">>, <<0, "w">>>>

CalcEffectiveBottomReflections(ls, cxy2, wavelength) ==
    LET acc == BottomAccesses(Len(ls))
    IN  IF \E i \in 1..Len(acc) : ~InBounds(acc[i][1], Len(ls)) THEN NoVector
        ELSE [kind |-> "bottom", of |-> ls, cxy2 |-> cxy2, wavelength |-> wavelength,
              assigned |-> {acc[i][1] : i \in {j \in 1..Len(acc) : acc[j][2] = "w"}}]

EmptyCache == [key \in {} |-> NoVector]

CacheInsert(cache, key, vector) ==
    [k \in (DOMAIN cache) \cup {key} |-> IF k = key THEN vector ELSE cache[k]]

NoCall == [op |-> "none", layer |-> NullLayer, cx |-> 0, cy |-> 0,
           wavelength |-> 0, status |-> "ok", vector |-> NoVector,
           indx |-> 0, calculated |-> FALSE]

\* WaferStack::WaferStack(void)
StackInit ==
    /\ layers = <<>>
    /\ resist = NullLayer
    /\ substrate = NullLayer
    /\ environment = NullLayer
    /\ cached_top_reflections = EmptyCache
    /\ cached_bottom_reflections = EmptyCache
    /\ cached_wavelength = -1
    /\ stack_ret = NoCall

\* (PushThrows without the checks made once a resist is in the stack)
PushThrowsNoResistCheck(layer) ==
    \/ environment # NullLayer
    \/ layers = <<>> /\ ~is_substrate(layer)

\* (PushThrows without the check that the environment closes the stack)
PushThrowsNoEnvironmentCheck(layer) ==
    \/ resist # NullLayer /\ (is_resist(layer) \/ ~is_environment(layer))
    \/ layers = <<>> /\ ~is_substrate(layer)

\* The conditions under which WaferStack::push throws, in source order.
PushThrows(layer) ==
    \/ environment # NullLayer
    \/ resist # NullLayer /\ (is_resist(layer) \/ ~is_environment(layer))
    \/ layers = <<>> /\ ~is_substrate(layer)

\* WaferStack::push
push(layer) ==
    /\ PushThrows(layer) \/ Len(layers) < MaxLayers
    /\ IF PushThrows(layer)
         THEN /\ stack_ret' = [NoCall EXCEPT !.op = "push", !.layer = layer,
                                             !.status = "invalid_argument"]
              /\ UNCHANGED <<layers, resist, substrate, environment>>
         ELSE /\ environment' = IF is_environment(layer) THEN layer ELSE environment
              /\ resist' = IF ~is_environment(layer) /\ is_resist(layer)
                             THEN layer ELSE resist
              /\ substrate' = IF ~is_environment(layer) /\ ~is_resist(layer)
                                    /\ is_substrate(layer)
                                THEN layer ELSE substrate
              /\ layers' = <<layer>> \o layers
              /\ stack_ret' = [NoCall EXCEPT !.op = "push", !.layer = layer]
    /\ UNCHANGED <<cached_top_reflections, cached_bottom_reflections,
                   cached_wavelength>>
    /\ UNCHANGED <<peb_vars, poly_vars, disp_vars, plan_vars, eik_vars, ord_vars, kern_vars, vol_vars, dev_vars, upd_vars, li_vars, cross_vars, x2_vars, mp_vars, tw_vars>>

\* WaferStack::effective_top_reflection
\* (an empty layer list is excluded: _calc_refractive_indexes indexes
\*  _layers[0] of an empty vector and the process does not survive it)
effective_top_reflection(cx, cy, wavelength) ==
    /\ Len(layers) >= 1
    /\ LET cleared == IF cached_wavelength # wavelength
                        THEN EmptyCache ELSE cached_top_reflections
           cx_cy == <<cx, cy>>
           reflections == CalcEffectiveTopReflections(layers, cx*cx + cy*cy, wavelength)
       IN  /\ cached_wavelength' = wavelength
           /\ IF cx_cy \in DOMAIN cleared
                THEN /\ cached_top_reflections' = cleared
                     /\ stack_ret' = [NoCall EXCEPT !.op = "top", !.cx = cx, !.cy = cy,
                                          !.wavelength = wavelength,
                                          !.vector = cleared[cx_cy]]
                ELSE IF reflections = NoVector
                THEN /\ cached_top_reflections' = cleared
                     /\ stack_ret' = [NoCall EXCEPT !.op = "top", !.cx = cx, !.cy = cy,
                                          !.wavelength = wavelength,
                                          !.status = "index out of bounds"]
                ELSE /\ cached_top_reflections' = CacheInsert(cleared, cx_cy, reflections)
                     /\ stack_ret' = [NoCall EXCEPT !.op = "top", !.cx = cx, !.cy = cy,
                                          !.wavelength = wavelength,
                                          !.vector = reflections]
    /\ UNCHANGED <<layers, resist, substrate, environment, cached_bottom_reflections>>
    /\ UNCHANGED <<peb_vars, poly_vars, disp_vars, plan_vars, eik_vars, ord_vars, kern_vars, vol_vars, dev_vars, upd_vars, li_vars, cross_vars, x2_vars, mp_vars, tw_vars>>

\* WaferStack::effective_bottom_reflection: the cache after the call, the
\* vector returned (NoVector when the calculation throws) and whether the
\* calculation ran
BottomLookup(cx, cy, wavelength) ==
    LET cleared == IF cached_wavelength # wavelength
                     THEN EmptyCache ELSE cached_bottom_reflections
        cx_cy == <<cx, cy>>
        reflections == CalcEffectiveBottomReflections(layers, cx*cx + cy*cy, wavelength)
    IN  IF cx_cy \in DOMAIN cleared
          THEN [cache |-> cleared, vector |-> cleared[cx_cy], calculated |-> FALSE]
        ELSE IF reflections = NoVector
          THEN [cache |-> cleared, vector |-> NoVector, calculated |-> TRUE]
        ELSE [cache |-> CacheInsert(cleared, cx_cy, reflections),
              vector |-> reflections, calculated |-> TRUE]

\* WaferStack::effective_bottom_reflection
effective_bottom_reflection(cx, cy, wavelength) ==
    /\ Len(layers) >= 1
    /\ LET found == BottomLookup(cx, cy, wavelength)
       IN  /\ cached_wavelength' = wavelength
           /\ cached_bottom_reflections' = found.cache
           /\ stack_ret' = [NoCall EXCEPT !.op = "bottom", !.cx = cx, !.cy = cy,
                                !.wavelength = wavelength,
                                !.calculated = found.calculated,
                                !.status = IF found.vector = NoVector
                                             THEN "index out of bounds" ELSE "ok",
                                !.vector = found.vector]
    /\ UNCHANGED <<layers, resist, substrate, environment, cached_top_reflections>>
    /\ UNCHANGED <<peb_vars, poly_vars, disp_vars, plan_vars, eik_vars, ord_vars, kern_vars, vol_vars, dev_vars, upd_vars, li_vars, cross_vars, x2_vars, mp_vars, tw_vars>>

\* WaferStack::is_ok
is_ok == environment # NullLayer /\ resist # NullLayer /\ substrate # NullLayer

\* WaferStack::reflectivity: indx is tested against size-1, the bottom
\* reflections are looked up at normal incidence and entry indx is read.
reflectivity(indx, wavelength) ==
    /\ Len(layers) >= 1
    /\ IF indx = 0 \/ indx > Len(layers) - 1
         THEN /\ stack_ret' = [NoCall EXCEPT !.op = "reflectivity", !.indx = indx,
                                   !.wavelength = wavelength,
                                   !.status = "out_of_range"]
              /\ UNCHANGED <<cached_wavelength, cached_bottom_reflections>>
         ELSE LET found == BottomLookup(0, 0, wavelength)
              IN  /\ cached_wavelength' = wavelength
                  /\ cached_bottom_reflections' = found.cache
                  /\ stack_ret' = [NoCall EXCEPT !.op = "reflectivity", !.indx = indx,
                                       !.wavelength = wavelength,
                                       !.calculated = found.calculated,
                                       !.status = IF found.vector = NoVector
                                                    THEN "index out of bounds" ELSE "ok",
                                       !.vector = found.vector]
    /\ UNCHANGED <<layers, resist, substrate, environment, cached_top_reflections>>
    /\ UNCHANGED <<peb_vars, poly_vars, disp_vars, plan_vars, eik_vars, ord_vars, kern_vars, vol_vars, dev_vars, upd_vars, li_vars, cross_vars, x2_vars, mp_vars, tw_vars>>

(***************************************************************************)
(* WaferStack properties                                                   *)
(***************************************************************************)
CountOf(ls, type) == Cardinality({i \in 1..Len(ls) : ls[i] = type})
IsQuery(ret) == ret.op \in {"top", "bottom"}
Returned(ret) == IsQuery(ret) /\ ret.status = "ok"

C3_PushRejects ==
    [][(stack_ret'.op = "push"
          /\ \/ layers = <<>> /\ stack_ret'.layer # SUBSTRATE_LAYER
             \/ CountOf(layers, ENVIRONMENT_LAYER) > 0
             \/ stack_ret'.layer = RESIST_LAYER /\ CountOf(layers, RESIST_LAYER) > 0)
          => (stack_ret'.status = "invalid_argument" /\ layers' = layers)]_vars

\* a second resist has just been refused
C3_Witness ==
    /\ stack_ret.op = "push"
    /\ stack_ret.layer = RESIST_LAYER
    /\ stack_ret.status = "invalid_argument"
    /\ CountOf(layers, RESIST_LAYER) = 1
    /\ CountOf(layers, ENVIRONMENT_LAYER) = 0

\* C4: after accepted pushes the list holds at most one environment, at
\* index 0 (the top), at most one resist, and exactly one substrate, which
\* is the last (bottom) layer.
C4_SingleEnvResistSubstrate ==
    layers # <<>>
        => /\ CountOf(layers, ENVIRONMENT_LAYER) <= 1
           /\ \A i \in 1..Len(layers) : layers[i] = ENVIRONMENT_LAYER => i = 1
           /\ CountOf(layers, RESIST_LAYER) <= 1
           /\ CountOf(layers, SUBSTRATE_LAYER) = 1
           /\ layers[Len(layers)] = SUBSTRATE_LAYER


\* C22: the cached reflection vectors are consistent with the current layer
\* list: after a push, a query at a (cx, cy, wavelength) that was queried
\* before returns the vector computed from the new layer list.
C22_CacheFollowsLayers ==
    (stack_ret.op \in {"top", "bottom", "reflectivity"} /\ stack_ret.vector # NoVector)
        => stack_ret.vector.of = layers

\* C23: for every stack of two or more layers, the bottom-looking reflection
\* calculation runs to its end and every index it reads or writes lies in
\* [0, number of layers).
C23_IndexesInBounds ==
    (stack_ret.op \in {"bottom", "reflectivity"} /\ stack_ret.calculated
       /\ Len(layers) >= 2)
        => /\ stack_ret.status = "ok"
           /\ \A i \in 1..Len(BottomAccesses(Len(layers))) :
                  InBounds(BottomAccesses(Len(layers))[i][1], Len(layers))

\* C24: for every index reflectivity accepts (1 <= indx <= n-1), the entry
\* of the bottom-reflection vector it reads has been assigned by the
\* calculation.
C24_ReadEntryAssigned ==
    (stack_ret.op = "reflectivity" /\ stack_ret.vector # NoVector)
        => stack_ret.indx \in stack_ret.vector.assigned

\* C28: in every stack for which is_ok() holds the environment is layer 0,
\* the resist is layer 1 and a substrate is the last layer.
C28_OkStackOrder ==
    is_ok => /\ Len(layers) >= 3
             /\ layers[1] = ENVIRONMENT_LAYER
             /\ layers[2] = RESIST_LAYER
             /\ layers[Len(layers)] = SUBSTRATE_LAYER

\* a complete stack has been built
C28_Witness ==
    /\ is_ok
    /\ stack_ret.op = "push" /\ stack_ret.status = "ok"
    /\ Len(layers) = 3

NextStack ==
    \/ \E layer \in LayerTypes : push(layer)
    \/ \E d \in Directions, w \in Wavelengths :
          effective_top_reflection(d[1], d[2], w)
    \/ \E d \in Directions, w \in Wavelengths :
          effective_bottom_reflection(d[1], d[2], w)
    \/ \E indx \in 0..MaxLayers, w \in Wavelengths : reflectivity(indx, w)

(***************************************************************************)
(* ==================== Post-exposure-bake diffusion ===================== *)
(* src/OptolithiumC/include/opl_conv.h, src/OptolithiumC/src/opl_sim.cpp   *)
(*                                                                         *)
(* A kernel is a sequence of integer weights w; the kernel of the code is  *)
(* w / Sum(w), which has unit sum.  Cube values are numerators over the    *)
(* denominator peb_scale, so all arithmetic is exact.                      *)
(***************************************************************************)
SYMMETRIC == 0
CIRCULAR == 1

RECURSIVE SumSeq(_)
SumSeq(seq) == IF seq = <<>> THEN 0 ELSE Head(seq) + SumSeq(Tail(seq))

Abs(x) == IF x < 0 THEN -x ELSE x

\* the kernels the diffusion is run with: binomial weights of length 1, 3, 9
Kernels == { <<1>>, <<1, 2, 1>>, <<1, 8, 28, 56, 70, 56, 28, 8, 1>> }

\* kmin = -floor(n_elem / 2.0)
KernelMin(kernel) == -(Len(kernel) \div 2)

\* 2^bits mod n for bits in {32, 64}, without leaving the 32-bit integers
Pow2Mod(bits, n) ==
    LET p16 == 65536 % n
        p32 == (p16 * p16) % n
    IN  IF bits = 32 THEN p32 ELSE (p32 * p32) % n

\* (x mod 2^bits) mod n for -2^bits < x < 2^bits: the value of an unsigned
\* expression of that width followed by % n
UnsignedMod(x, bits, n) ==
    IF x >= 0 THEN x % n ELSE (Pow2Mod(bits, n) + (x % n)) % n

\* _symmetric_conv1d, the index v read for output i and kernel offset s
SymmetricIndex(i, s, c) ==
    LET w == Abs(i + s)
    IN  IF w >= c
          THEN IF (w \div (c - 1)) % 2 = 1
                 THEN (c - 1) - (w % (c - 1))
                 ELSE w % (c - 1)
          ELSE w

\* _circular_conv1d, the index v read for output i and kernel offset s:
\* (array.n_elem + i + s) % array.n_elem in uword arithmetic
CircularIndex(i, s, n, bits) == UnsignedMod(n + i + s, bits, n)

\* conv::conv1d on one vector (a sequence, element i of the code at i + 1)
conv1d(array, kernel, type, bits) ==
    LET n == Len(array)
        kmin == KernelMin(kernel)
        v(i, k) == IF type = CIRCULAR
                     THEN CircularIndex(i, kmin + k, n, bits)
                     ELSE SymmetricIndex(i, kmin + k, n)
    IN  IF n > 1
          THEN [i \in 1..n |->
                  SumSeq([k \in 1..Len(kernel) |->
                            array[v(i - 1, k - 1) + 1] * kernel[k]])]
          ELSE array

\* the factor conv1d multiplies the common denominator by
ConvScale(n, kernel) == IF n > 1 THEN SumSeq(kernel) ELSE 1

Voxels(dims) == (1..dims[1]) \X (1..dims[2]) \X (1..dims[3])

\* the latent images: cubes with one or two voxels set to 1, all others 0
InputCubes(dims) ==
    { [v \in Voxels(dims) |-> IF v \in {a, b} THEN 1 ELSE 0] :
         a \in Voxels(dims), b \in Voxels(dims) }

\* arma::accu
accu(cube) ==
    LET dom == DOMAIN cube
        RECURSIVE Acc(_)
        Acc(left) == IF left = {} THEN 0
                     ELSE LET v == CHOOSE e \in left : TRUE
                          IN  cube[v] + Acc(left \ {v})
    IN  Acc(dom)

NoCube == [v \in {} |-> 0]

PebInit ==
    /\ peb_pc = "idle"
    /\ peb_dims = <<0, 0, 0>>
    /\ peb_input = NoCube
    /\ peb_output = NoCube
    /\ peb_scale = 1
    /\ peb_kernels = << <<1>>, <<1>>, <<1>> >>
    /\ peb_uword = 64

\* peb_latent_image, entry: the latent image and the three kernels
PebStart(dims, cube, kx, ky, kz, bits) ==
    /\ peb_pc = "idle"
    /\ peb_pc' = "start"
    /\ peb_dims' = dims
    /\ peb_input' = cube
    /\ peb_output' = [v \in Voxels(dims) |-> 0]
    /\ peb_scale' = 1
    /\ peb_kernels' = <<kx, ky, kz>>
    /\ peb_uword' = bits
    /\ UNCHANGED <<stack_vars, poly_vars, disp_vars, plan_vars, eik_vars, ord_vars, kern_vars, vol_vars, dev_vars, upd_vars, li_vars, cross_vars, x2_vars, mp_vars, tw_vars>>

\* peb_latent_image, per slice: every row through kernelx, CIRCULAR
PebRows ==
    /\ peb_pc = "start"
    /\ peb_pc' = "x"
    /\ LET row(r, s) == [c \in 1..peb_dims[2] |-> peb_input[<<r, c, s>>]]
       IN  peb_output' = [v \in Voxels(peb_dims) |->
               conv1d(row(v[1], v[3]), peb_kernels[1], CIRCULAR, peb_uword)[v[2]]]
    /\ peb_scale' = peb_scale * ConvScale(peb_dims[2], peb_kernels[1])
    /\ UNCHANGED <<peb_dims, peb_input, peb_kernels, peb_uword>>
    /\ UNCHANGED <<stack_vars, poly_vars, disp_vars, plan_vars, eik_vars, ord_vars, kern_vars, vol_vars, dev_vars, upd_vars, li_vars, cross_vars, x2_vars, mp_vars, tw_vars>>

\* peb_latent_image, per slice: every column through kernely, CIRCULAR
PebCols ==
    /\ peb_pc = "x"
    /\ peb_pc' = "y"
    /\ LET col(c, s) == [r \in 1..peb_dims[1] |-> peb_output[<<r, c, s>>]]
       IN  peb_output' = [v \in Voxels(peb_dims) |->
               conv1d(col(v[2], v[3]), peb_kernels[2], CIRCULAR, peb_uword)[v[1]]]
    /\ peb_scale' = peb_scale * ConvScale(peb_dims[1], peb_kernels[2])
    /\ UNCHANGED <<peb_dims, peb_input, peb_kernels, peb_uword>>
    /\ UNCHANGED <<stack_vars, poly_vars, disp_vars, plan_vars, eik_vars, ord_vars, kern_vars, vol_vars, dev_vars, upd_vars, li_vars, cross_vars, x2_vars, mp_vars, tw_vars>>

\* peb_latent_image: every tube through kernelz, SYMMETRIC
PebTubes ==
    /\ peb_pc = "y"
    /\ peb_pc' = "done"
    /\ LET tube(r, c) == [s \in 1..peb_dims[3] |-> peb_output[<<r, c, s>>]]
       IN  peb_output' = [v \in Voxels(peb_dims) |->
               conv1d(tube(v[1], v[2]), peb_kernels[3], SYMMETRIC, peb_uword)[v[3]]]
    /\ peb_scale' = peb_scale * ConvScale(peb_dims[3], peb_kernels[3])
    /\ UNCHANGED <<peb_dims, peb_input, peb_kernels, peb_uword>>
    /\ UNCHANGED <<stack_vars, poly_vars, disp_vars, plan_vars, eik_vars, ord_vars, kern_vars, vol_vars, dev_vars, upd_vars, li_vars, cross_vars, x2_vars, mp_vars, tw_vars>>

NextPeb ==
    \/ /\ peb_pc = "idle"
       /\ \E dims \in (1..MaxRows) \X (1..MaxCols) \X (1..MaxSlices) :
            \E cube \in InputCubes(dims), kx \in Kernels, ky \in Kernels,
               kz \in Kernels, bits \in {32, 64} :
                 PebStart(dims, cube, kx, ky, kz, bits)
    \/ PebRows
    \/ PebCols
    \/ PebTubes

\* C5: each axis pass of the bake diffusion conserves the total of the
\* cube: after the x, the y and the z pass the sum of all values equals
\* the sum of the input (numerators: the input total times the denominator).
C5_MassConserved ==
    peb_pc \in {"x", "y", "done"} => accu(peb_output) = peb_scale * accu(peb_input)

(***************************************************************************)
(* ============================= Geometry ================================ *)
(* src/OptolithiumC/src/opl_geometry.cpp, include/opl_geometry.h           *)
(*                                                                         *)
(* Coordinates are integers.  Areas are kept doubled (signed_area returns  *)
(* twice the value of the code for a 2D polygon) so that the division by   *)
(* 2.0 of Edge2d::area is exact; the sign is the sign of the code's value. *)
(***************************************************************************)
\* rotation_type_t
CW == 1
CCW == -1

\* dimension_t
DIM_1D_X == 0
DIM_1D_Y == 1
DIM_2D == 2
\* _axis of a geometry whose constructor has not run or has thrown
NoAxis == -1

Points2d == (0..MaxCoord) \X (0..MaxCoord)

Edge2d(org, dst) == [org |-> org, dst |-> dst]

is_vertical(e) == e.org[1] = e.dst[1]
is_horizontal(e) == e.org[2] = e.dst[2]
dx(e) == e.dst[1] - e.org[1]
dy(e) == e.dst[2] - e.org[2]

\* Edge2d::area, doubled: dx * (dst.y + org.y)
area(e) == dx(e) * (e.dst[2] + e.org[2])

\* Edge2d::flip
flip(e) == [org |-> e.dst, dst |-> e.org]

\* AbstractGeometry::signed_area
signed_area(edges, axis) ==
    IF axis = DIM_2D
      THEN SumSeq([i \in 1..Len(edges) |-> area(edges[i])])
      ELSE edges[1].dst[axis + 1] - edges[1].org[axis + 1]

\* (the reversal of set_bypass without flipping the edges)
ReverseOnly(edges) ==
    [i \in 1..Len(edges) |-> edges[Len(edges) + 1 - i]]

\* std::reverse of the edge list, then flip of every edge
ReverseAndFlip(edges) ==
    [i \in 1..Len(edges) |-> flip(edges[Len(edges) + 1 - i])]

is_1d_possible(points) ==
    /\ Len(points) = 2
    /\ LET edge == Edge2d(points[1], points[2])
       IN  is_vertical(edge) \/ is_horizontal(edge)

is_2d_possible(points) == Len(points) >= 3

NoGeometryCall == [op |-> "none", direction |-> 0, status |-> "ok", corrected |-> FALSE]

PolyInit ==
    /\ poly_edges = <<>>
    /\ poly_axis = NoAxis
    /\ poly_ret = NoGeometryCall

\* PolygonGeometry::PolygonGeometry(const ArrayOfSharedPoints2d&)
PolygonGeometry(points) ==
    /\ poly_axis = NoAxis
    /\ IF is_1d_possible(points)
         THEN LET edge == Edge2d(points[Len(points)], points[1])
              IN  /\ poly_edges' = <<edge>>
                  /\ poly_axis' = IF is_horizontal(edge) THEN DIM_1D_X ELSE DIM_1D_Y
                  /\ poly_ret' = [NoGeometryCall EXCEPT !.op = "PolygonGeometry"]
         ELSE IF is_2d_possible(points)
         THEN /\ poly_edges' =
                    [i \in 1..Len(points) |->
                        IF i < Len(points)
                          THEN Edge2d(points[i], points[i + 1])
                          ELSE Edge2d(points[Len(points)], points[1])]
              /\ poly_axis' = DIM_2D
              /\ poly_ret' = [NoGeometryCall EXCEPT !.op = "PolygonGeometry"]
         ELSE /\ poly_ret' = [NoGeometryCall EXCEPT !.op = "PolygonGeometry",
                                                    !.status = "invalid_argument"]
              /\ UNCHANGED <<poly_edges, poly_axis>>
    /\ UNCHANGED <<stack_vars, peb_vars, disp_vars, plan_vars, eik_vars, ord_vars, kern_vars, vol_vars, dev_vars, upd_vars, li_vars, cross_vars, x2_vars, mp_vars, tw_vars>>

\* AbstractGeometry::set_bypass
set_bypass(direction) ==
    /\ poly_axis # NoAxis
    /\ poly_ret.status # "fault"
    /\ LET corrected == direction * signed_area(poly_edges, poly_axis) < 0
       IN  /\ poly_edges' = IF corrected THEN ReverseAndFlip(poly_edges) ELSE poly_edges
           /\ poly_ret' = [NoGeometryCall EXCEPT !.op = "set_bypass",
                                !.direction = direction, !.corrected = corrected]
    /\ UNCHANGED poly_axis
    /\ UNCHANGED <<stack_vars, peb_vars, disp_vars, plan_vars, eik_vars, ord_vars, kern_vars, vol_vars, dev_vars, upd_vars, li_vars, cross_vars, x2_vars, mp_vars, tw_vars>>

\* Iterable::indx
indx(k, len) == IF k < 0 THEN (len + k) % len ELSE k % len

\* operator-(Point2d, Point2d)
Minus(p, q) == <<p[1] - q[1], p[2] - q[2]>>

dot(p, q) == p[1] * q[1] + p[2] * q[2]

\* Edge2d::sizes
sizes(e) == Minus(e.dst, e.org)

\* Point2d::length, squared (the square root is zero, or smaller than
\* another one, exactly when its argument is)
SquaredLength(p) == dot(p, p)

\* Point2d::classify with DEFAULT_CLASSIFY_PRECISION = 1e-2; on integer
\* coordinates sa > 1e-2 is sa >= 1
classify(p2, p0, p1) ==
    LET a == Minus(p1, p0)
        b == Minus(p2, p0)
        sa == a[1] * b[2] - b[1] * a[2]
    IN  IF sa > 0 THEN "LEFT"
        ELSE IF sa < 0 THEN "RIGHT"
        ELSE IF a[1] * b[1] < 0 \/ a[2] * b[2] < 0 THEN "BEHIND"
        ELSE IF SquaredLength(a) < SquaredLength(b) THEN "BEYOND"
        ELSE IF p0 = p2 THEN "ORIGIN"
        ELSE IF p1 = p2 THEN "DESTINATION"
        ELSE "BETWEEN"

\* Edge2d::intersect (the cross type; the parameter t is not read by clean)
intersect(this, e) ==
    LET a == this.org
        b == this.dst
        c == e.org
        d == e.dst
        n == <<Minus(d, c)[2], Minus(c, d)[1]>>
        denom == dot(n, Minus(b, a))
    IN  IF denom = 0
          THEN IF classify(this.org, e.org, e.dst) \in {"LEFT", "RIGHT"}
                 THEN "PARALLEL"
                 ELSE "COLLINEAR"
          ELSE "SKEW"

\* std::vector::erase of the element at the 0-based position pos
Erase(edges, pos) ==
    [i \in 1..(Len(edges) - 1) |-> IF i <= pos THEN edges[i] ELSE edges[i + 1]]

\* The while loop of PolygonGeometry::clean, from iterator position pos.
\* After the erase that empties the vector, *it evaluates indx(pos, 0),
\* an integer remainder by zero.
RECURSIVE CleanLoop(_, _, _)
CleanLoop(edges, pos, deleted) ==
    IF Len(edges) = 0 \/ pos = Len(edges)
      THEN [edges |-> edges, deleted |-> deleted, status |-> "ok"]
      ELSE LET cur_edge == edges[indx(pos, Len(edges)) + 1]
               next_edge == edges[indx(pos + 1, Len(edges)) + 1]
               remove_required ==
                   \/ SquaredLength(sizes(cur_edge)) = 0
                   \/ intersect(cur_edge, next_edge) = "COLLINEAR"
           IN  IF remove_required
                 THEN LET erased == Erase(edges, pos)
                          len == Len(erased)
                      IN  IF len = 0
                            THEN [edges |-> erased, deleted |-> TRUE,
                                  status |-> "remainder_by_zero"]
                            ELSE LET it == indx(pos, len) + 1
                                     prev == indx(indx(pos - 1, len), len) + 1
                                 IN  CleanLoop(
                                       [erased EXCEPT ![it].org = erased[prev].dst],
                                       pos, TRUE)
                 ELSE CleanLoop(edges, pos + 1, deleted)

\* PolygonGeometry::clean.  The remainder by zero is undefined: the process
\* is stopped by the division trap ("fault"), or the remainder has some
\* value and std::vector::at throws on the empty vector ("out_of_range").
clean ==
    /\ poly_axis # NoAxis
    /\ poly_ret.status # "fault"
    /\ IF poly_axis = DIM_2D
         THEN LET r == CleanLoop(poly_edges, 0, FALSE)
              IN  /\ poly_edges' = r.edges
                  /\ \E status \in IF r.status = "ok" THEN {"ok"}
                                     ELSE {"fault", "out_of_range"} :
                        poly_ret' = [op |-> "clean", direction |-> 0,
                                     status |-> status, corrected |-> FALSE,
                                     deleted |-> r.deleted]
         ELSE /\ poly_ret' = [op |-> "clean", direction |-> 0, status |-> "ok",
                              corrected |-> FALSE, deleted |-> FALSE]
              /\ UNCHANGED poly_edges
    /\ UNCHANGED poly_axis
    /\ UNCHANGED <<stack_vars, peb_vars, disp_vars, plan_vars, eik_vars, ord_vars, kern_vars, vol_vars, dev_vars, upd_vars, li_vars, cross_vars, x2_vars, mp_vars, tw_vars>>

PointLists == UNION { [1..n -> Points2d] : n \in 2..MaxPoints }

NextPoly ==
    \/ /\ poly_axis = NoAxis
       /\ \E points \in PointLists : PolygonGeometry(points)
    \/ \E direction \in {CW, CCW} : set_bypass(direction)
    \/ clean

\* C6 as stated: after set_bypass(CW) signed_area() <= 0, after
\* set_bypass(CCW) signed_area() >= 0.
C6_AsStated ==
    poly_ret.op = "set_bypass"
        => /\ poly_ret.direction = CW => signed_area(poly_edges, poly_axis) <= 0
           /\ poly_ret.direction = CCW => signed_area(poly_edges, poly_axis) >= 0

\* C6, amended: after set_bypass(CW) on any polygon signed_area() >= 0,
\* after set_bypass(CCW) signed_area() <= 0 (signed_area is positive for a
\* clockwise chain).
C6_BypassSign ==
    poly_ret.op = "set_bypass"
        => /\ poly_ret.direction = CW => signed_area(poly_edges, poly_axis) >= 0
           /\ poly_ret.direction = CCW => signed_area(poly_edges, poly_axis) <= 0

\* set_bypass(CW) has just reversed a 2D polygon of non-zero area
C6_Witness ==
    /\ poly_ret.op = "set_bypass"
    /\ poly_ret.direction = CW
    /\ poly_ret.corrected
    /\ poly_axis = DIM_2D
    /\ signed_area(poly_edges, poly_axis) > 0

\* C16: after clean() on a 2D polygon no zero-length edge remains and no two
\* cyclically adjacent edges (the last and the first included) are
\* collinear.
C16_NoDegenerateEdge ==
    (poly_ret.op = "clean" /\ poly_ret.status = "ok" /\ poly_axis = DIM_2D) =>
        \A i \in 1..Len(poly_edges) :
            /\ poly_edges[i].org # poly_edges[i].dst
            /\ intersect(poly_edges[i], poly_edges[(i % Len(poly_edges)) + 1])
                    # "COLLINEAR"

\* C17: the edges of every 2D polygon form a closed chain, dst(e_i) =
\* org(e_{i+1}) for every i and the last edge ending where the first begins,
\* after construction and after any sequence of clean() and set_bypass()
\* calls.
C17_ClosedChain ==
    poly_axis = DIM_2D =>
        \A i \in 1..Len(poly_edges) :
            poly_edges[i].dst = poly_edges[(i % Len(poly_edges)) + 1].org

\* clean() has removed an edge of a counter-clockwise 2D polygon and has
\* left at least three edges
C17_Witness ==
    /\ poly_ret.op = "clean"
    /\ poly_ret.status = "ok"
    /\ poly_ret.deleted
    /\ poly_axis = DIM_2D
    /\ Len(poly_edges) >= 3
    /\ signed_area(poly_edges, poly_axis) < 0

\* C27: clean() terminates without a fault on every 2D polygon that
\* construction accepts, polygons whose points all coincide or all lie on one
\* line included: it never indexes into an empty edge list and never takes a
\* remainder by a zero length.
C27_CleanNoFault ==
    (poly_ret.op = "clean" /\ poly_axis = DIM_2D) => poly_ret.status = "ok"

(***************************************************************************)
(* ============================ FFT library ============================== *)
(* src/OptolithiumC/libs/fourier/src/fourier.c, src/primes.c               *)
(***************************************************************************)
\* fft_handlers[k].count, k = 0 .. FFT_IMPLEMENTED_RADIX_COUNT-1 (here at k+1)
fft_handlers == <<2, 3, 4, 5, 6, 7, 11, 13, 17, 19, 47>>
FFT_IMPLEMENTED_RADIX_COUNT == Len(fft_handlers)

\* check_implemented_fft: index of the handler of this length, or -1
check_implemented_fft(count) ==
    IF \E k \in 0..FFT_IMPLEMENTED_RADIX_COUNT - 1 : fft_handlers[k + 1] = count
      THEN CHOOSE k \in 0..FFT_IMPLEMENTED_RADIX_COUNT - 1 : fft_handlers[k + 1] = count
      ELSE -1

\* is_power2: x && !(x & (x - 1))
RECURSIVE is_power2(_)
is_power2(x) ==
    IF x <= 0 THEN FALSE
    ELSE IF x = 1 THEN TRUE
    ELSE x % 2 = 0 /\ is_power2(x \div 2)

\* prime_factorize: the number of prime factors, counted with multiplicity
RECURSIVE CountFactors(_, _)
CountFactors(N, div) ==
    IF N <= 1 THEN 0
    ELSE IF div * div > N THEN 1
    ELSE IF N % div # 0 THEN CountFactors(N, div + 1)
    ELSE 1 + CountFactors(N \div div, div)

prime_factorize(N) == IF N < 4 THEN 1 ELSE CountFactors(N, 2)

\* is_prime
is_prime(N) == ~(prime_factorize(N) > 1)

\* the largest power of two dividing N (N even): radix2 = 1 << log2shift(N),
\* halved while N % radix2 != 0
RECURSIVE LargestPow2Dividing(_)
LargestPow2Dividing(N) == IF N % 2 # 0 THEN 1 ELSE 2 * LargestPow2Dividing(N \div 2)

\* the odd-multiplier loop: div = 3; while (N % div != 0) div += 2
RECURSIVE OddDivisor(_, _)
OddDivisor(N, div) == IF N % div = 0 THEN div ELSE OddDivisor(N, div + 2)

\* what fft_get_factor does once no implemented radix divides N
GetFactorFallback(N) ==
    IF N % 2 = 0
      THEN [factor |-> LargestPow2Dividing(N), indx |-> -1]
      ELSE [factor |-> OddDivisor(N, 3), indx |-> -1]

\* (fft_get_factor with the handler table scanned from its first entry)
fft_get_factor_ascending(N) ==
    LET hits == {k \in 0..FFT_IMPLEMENTED_RADIX_COUNT - 1 : N % fft_handlers[k + 1] = 0}
    IN  IF hits # {}
          THEN LET k == CHOOSE h \in hits : \A g \in hits : g >= h
               IN  [factor |-> fft_handlers[k + 1], indx |-> k]
          ELSE GetFactorFallback(N)

\* fft_get_factor: the returned factor and *imp_radix_indx; the table is
\* scanned from its last entry down
fft_get_factor(N) ==
    LET hits == {k \in 0..FFT_IMPLEMENTED_RADIX_COUNT - 1 : N % fft_handlers[k + 1] = 0}
    IN  IF hits # {}
          THEN LET k == CHOOSE h \in hits : \A g \in hits : g <= h
               IN  [factor |-> fft_handlers[k + 1], indx |-> k]
          ELSE GetFactorFallback(N)

\* fft_mixed_radix: the branch taken for plan->count
Dispatch(count) ==
    IF count = 1 THEN "fft_singular"
    ELSE IF check_implemented_fft(count) # -1 THEN "implemented_fft"
    ELSE IF is_power2(count) THEN "fft_radix_2"
    ELSE IF is_prime(count) THEN "fft_prime"
    ELSE "fft_split_radix"

DispInit ==
    /\ disp_count = 0
    /\ disp_algo = "none"
    /\ disp_factor = 0
    /\ disp_radix_indx = -1

\* fft_mixed_radix on a plan of the given length, up to the choice of the
\* factor in fft_split_radix
fft_mixed_radix(count) ==
    /\ disp_count' = count
    /\ disp_algo' = Dispatch(count)
    /\ IF Dispatch(count) = "fft_split_radix"
         THEN /\ disp_factor' = fft_get_factor(count).factor
              /\ disp_radix_indx' = fft_get_factor(count).indx
         ELSE /\ disp_factor' = 0
              /\ disp_radix_indx' = -1
    /\ UNCHANGED <<stack_vars, peb_vars, poly_vars, plan_vars, eik_vars, ord_vars, kern_vars, vol_vars, dev_vars, upd_vars, li_vars, cross_vars, x2_vars, mp_vars, tw_vars>>

NextDisp == \E count \in 1..MaxCount : fft_mixed_radix(count)

ImplementedRadix == {fft_handlers[i] : i \in 1..Len(fft_handlers)}
RadixDividing(N) == {q \in ImplementedRadix : N % q = 0}

FFT_USE_CACHE == 1
MAX_TWIDDLES_CACHE_CHILDREN == 3

\* plan lengths: none, trivial, power of two, prime, 2 x prime, prime squared
Lengths == {0, 1, 8, 23, 46, 529}

\* a block of the heap: the plan record, its dims, its tmpbuf, the array of
\* cache roots, a cache node of dimension dim reached from the root by the
\* child indices of path, and the entry array of such a node
Block(kind, dim, path) == [kind |-> kind, dim |-> dim, path |-> path]

\* fft_cache_create_node: the node, and its entries when count != 0
fft_cache_create_node(count, dim, path) ==
    {Block("node", dim, path)}
        \cup (IF count # 0 THEN {Block("data", dim, path)} ELSE {})

\* the blocks fft_cache_alloc_child calls create, in the subtree of the node
\* at path, when fft_mixed_radix / fft_prime run a plan of this length on it
RECURSIVE MixedRadixNodes(_, _, _)
RECURSIVE PrimeNodes(_, _, _)
PrimeNodes(count, dim, path) ==
    LET twiddle == Append(path, 0)
        sample  == Append(path, 1)
    IN  fft_cache_create_node(count - 1, dim, twiddle)
            \cup MixedRadixNodes(count - 1, dim, twiddle)
            \cup fft_cache_create_node(count - 1, dim, sample)
            \cup MixedRadixNodes(count - 1, dim, sample)

SplitRadixNodes(count, dim, path) ==
    LET f            == fft_get_factor(count)
        prime_factor == f.factor
        mixed_factor == count \div prime_factor
        cols         == Append(path, 0)
        rows         == Append(path, 1)
    IN  (IF prime_factor = 1 \/ f.indx # -1 THEN {}
         ELSE IF prime_factor % 2 = 0
           THEN fft_cache_create_node(prime_factor, dim, cols)
           ELSE fft_cache_create_node(prime_factor, dim, cols)
                    \cup PrimeNodes(prime_factor, dim, cols))
            \cup fft_cache_create_node(mixed_factor, dim, rows)
            \cup MixedRadixNodes(mixed_factor, dim, rows)

MixedRadixNodes(count, dim, path) ==
    CASE Dispatch(count) = "fft_prime"       -> PrimeNodes(count, dim, path)
      [] Dispatch(count) = "fft_split_radix" -> SplitRadixNodes(count, dim, path)
      [] OTHER                               -> {}

\* FOURIER_ECHO_* levels; FOURIER_ASSERT(condition, level, ...) tests its
\* condition when level >= FOURIER_ASSERT_VERBOSE_LEVEL, a macro the build
\* defines, and calls exit(-1) when the condition is false
FOURIER_ECHO_DEBUG == 0
FOURIER_ECHO_VERBOSE == 1
FOURIER_ECHO_CRITICAL == 2
FOURIER_ECHO_NONE == 3

\* the values of FOURIER_ASSERT_VERBOSE_LEVEL a build can be given
AssertLevels == FOURIER_ECHO_DEBUG..FOURIER_ECHO_NONE

FOURIER_ASSERT(condition, level, assert_level) ==
    level >= assert_level /\ ~condition

\* fft_complex_t* arguments: NULL and two distinct arrays
NULL == "NULL"
Buffers == {NULL, "a", "b"}

NoPlan == [state |-> "none", rank |-> 0, dims |-> <<>>, flags |-> 0, tmpbuf |-> FALSE,
           in |-> NULL, out |-> NULL, assert_level |-> FOURIER_ECHO_DEBUG]

PlanInit ==
    /\ fft_plan = NoPlan
    /\ fft_heap = {}

\* fft_cache_init: the array of roots, and a root per dimension with the flag
fft_cache_init(rank, dims, flags) ==
    {Block("cache", 0, <<>>)}
        \cup (IF flags % 2 = FFT_USE_CACHE
                THEN UNION {fft_cache_create_node(dims[k + 1], k, <<>>) : k \in 0..rank - 1}
                ELSE {})

\* FOURIER_ASSERT(in != NULL, ...) and FOURIER_ASSERT(out != NULL, ...) of
\* both plan constructors
BufferAssert(in, out, assert_level) ==
    \/ FOURIER_ASSERT(in # NULL, FOURIER_ECHO_CRITICAL, assert_level)
    \/ FOURIER_ASSERT(out # NULL, FOURIER_ECHO_CRITICAL, assert_level)

fft_plan_create_many_1d(count, in, out, flags, assert_level) ==
    /\ fft_plan.state = "none"
    /\ IF BufferAssert(in, out, assert_level)
         THEN /\ fft_plan' = [NoPlan EXCEPT !.state = "rejected", !.rank = 1,
                                  !.dims = <<count>>, !.in = in, !.out = out,
                                  !.assert_level = assert_level]
              /\ fft_heap' = {}
         ELSE /\ fft_plan' = [state |-> "live", rank |-> 1, dims |-> <<count>>,
                              flags |-> flags, tmpbuf |-> (in = out),
                              in |-> in, out |-> out, assert_level |-> assert_level]
              /\ fft_heap' = {Block("plan", 0, <<>>), Block("dims", 0, <<>>)}
                                 \cup (IF in = out THEN {Block("tmpbuf", 0, <<>>)} ELSE {})
                                 \cup fft_cache_init(1, <<count>>, flags)
    /\ UNCHANGED <<stack_vars, peb_vars, poly_vars, disp_vars, eik_vars, ord_vars, kern_vars, vol_vars, dev_vars, upd_vars, li_vars, cross_vars, x2_vars, mp_vars, tw_vars>>

\* With in != out the constructor copies plan->total elements from in into
\* tmpbuf; when the assertions are compiled out and in is NULL that memcpy
\* is undefined: the process is stopped, or the constructor goes on.
fft_plan_create_nd(rank, dims, in, out, flags, assert_level) ==
    /\ fft_plan.state = "none"
    /\ IF BufferAssert(in, out, assert_level)
         THEN /\ fft_plan' = [NoPlan EXCEPT !.state = "rejected", !.rank = rank,
                                  !.dims = dims, !.in = in, !.out = out,
                                  !.assert_level = assert_level]
              /\ fft_heap' = {}
         ELSE \E outcome \in IF in # out /\ in = NULL THEN {"crashed", "live"}
                                                      ELSE {"live"} :
              /\ fft_plan' = [state |-> outcome, rank |-> rank, dims |-> dims,
                              flags |-> flags, tmpbuf |-> TRUE,
                              in |-> in, out |-> out, assert_level |-> assert_level]
              /\ fft_heap' = IF outcome = "crashed" THEN {}
                             ELSE {Block("plan", 0, <<>>), Block("dims", 0, <<>>),
                                   Block("tmpbuf", 0, <<>>)}
                                      \cup fft_cache_init(rank, dims, flags)
    /\ UNCHANGED <<stack_vars, peb_vars, poly_vars, disp_vars, eik_vars, ord_vars, kern_vars, vol_vars, dev_vars, upd_vars, li_vars, cross_vars, x2_vars, mp_vars, tw_vars>>

\* The plan has a sample in every dimension and both of its arrays
Executable(plan) ==
    /\ \A k \in 1..plan.rank : plan.dims[k] >= 1
    /\ plan.in # NULL
    /\ plan.out # NULL

\* fft_execute (rank 1 and 2): fft_mixed_radix on plan->cache[k] for each
\* dimension; a NULL root makes fft_cache_alloc_child return NULL.  The
\* buffers fft_prime and fft_split_radix MALLOC are wfree'd before they return.
\* On a plan without samples or without an array, fft_mixed_radix stops at
\* FOURIER_ALGORITHM_STD_ASSERTS(FOURIER_ECHO_DEBUG, plan, 1) when that level
\* is compiled in, unless fft_execute_2d has divided by dims[0] = 0 before;
\* otherwise the transform divides by zero or dereferences NULL, which is
\* undefined: the process is stopped, or the transform goes on.
fft_execute ==
    /\ fft_plan.state = "live"
    /\ IF Executable(fft_plan)
         THEN /\ fft_heap' = fft_heap \cup
                     (IF fft_plan.flags % 2 = FFT_USE_CACHE
                        THEN UNION {MixedRadixNodes(fft_plan.dims[k + 1], k, <<>>) :
                                        k \in 0..fft_plan.rank - 1}
                        ELSE {})
              /\ UNCHANGED fft_plan
         ELSE IF /\ FOURIER_ECHO_DEBUG >= fft_plan.assert_level
                 /\ (fft_plan.rank = 1 \/ fft_plan.dims[1] # 0)
         THEN /\ fft_plan' = [fft_plan EXCEPT !.state = "exited"]
              /\ fft_heap' = {}
         ELSE \E outcome \in {"crashed", "live"} :
              /\ fft_plan' = [fft_plan EXCEPT !.state = outcome]
              /\ fft_heap' = IF outcome = "crashed" THEN {} ELSE fft_heap
    /\ UNCHANGED <<stack_vars, peb_vars, poly_vars, disp_vars, eik_vars, ord_vars, kern_vars, vol_vars, dev_vars, upd_vars, li_vars, cross_vars, x2_vars, mp_vars, tw_vars>>

\* _fft_cache_destroy from every root: the nodes and entry arrays reachable
\* through children[0 .. MAX_TWIDDLES_CACHE_CHILDREN-1]
fft_cache_destroy(heap) ==
    {b \in heap : /\ b.kind \in {"node", "data"}
                  /\ \A i \in 1..Len(b.path) :
                         b.path[i] \in 0..MAX_TWIDDLES_CACHE_CHILDREN - 1}

fft_plan_destroy ==
    /\ fft_plan.state = "live"
    /\ fft_heap' = (fft_heap \ fft_cache_destroy(fft_heap))
                       \ {Block("tmpbuf", 0, <<>>), Block("dims", 0, <<>>),
                          Block("plan", 0, <<>>)}
    /\ fft_plan' = [fft_plan EXCEPT !.state = "destroyed"]
    /\ UNCHANGED <<stack_vars, peb_vars, poly_vars, disp_vars, eik_vars, ord_vars, kern_vars, vol_vars, dev_vars, upd_vars, li_vars, cross_vars, x2_vars, mp_vars, tw_vars>>

NextPlan ==
    \/ /\ fft_plan.state = "none"
       /\ \E count \in Lengths, in \in Buffers, out \in Buffers,
             flags \in {0, FFT_USE_CACHE}, assert_level \in AssertLevels :
              fft_plan_create_many_1d(count, in, out, flags, assert_level)
    \/ /\ fft_plan.state = "none"
       /\ \E n_rows \in Lengths, n_cols \in Lengths, in \in Buffers, out \in Buffers,
             flags \in {0, FFT_USE_CACHE}, assert_level \in AssertLevels :
              fft_plan_create_nd(2, <<n_rows, n_cols>>, in, out, flags, assert_level)
    \/ fft_execute
    \/ fft_plan_destroy

\* C7: once fft_plan_destroy has returned, no block allocated for the plan
\* (cache nodes, entry arrays, array of cache roots, shadow buffer, dimension
\* array, plan record) is still allocated.
C7_NothingRemains == fft_plan.state = "destroyed" => fft_heap = {}

\* C19: creating an FFT plan with a zero length, or with a missing input or
\* output buffer, is rejected as an argument error: no plan is returned and
\* no transform is run on it.
C19_Rejected ==
    (/\ fft_plan.state # "none"
     /\ \/ \E k \in 1..fft_plan.rank : fft_plan.dims[k] = 0
        \/ fft_plan.in = NULL
        \/ fft_plan.out = NULL)
        => fft_plan.state = "rejected"

(***************************************************************************)
(* ============================ Eikonal solve ============================ *)
(* src/OptolithiumC/libs/eikonal/src/FMM_eikonal2d.c                       *)
(***************************************************************************)
LSM_FMM_ERR_SUCCESS == 0
LSM_FMM_ERR_FMM_DATA_CREATION_ERROR == 1
LSM_FMM_ERR_INVALID_SPATIAL_DISCRETIZATION_ORDER == 2

SpatialOrders == 0..3

NoSolve == [order |-> 0, status |-> -1]

EikInit ==
    /\ eik_calls = 0
    /\ eik_heap = {}
    /\ eik_ret = NoSolve

\* FMM_EIKONAL_SOLVE_EIKONAL_EQUATION.  malloc and FMM_Core_createFMM_CoreData
\* either succeed or return NULL; a failed creation is taken to leave no
\* block of its own behind, and FMM_Core_destroyFMM_CoreData to release the
\* core data in full.
FMM_EIKONAL_SOLVE_EIKONAL_EQUATION(order, field_ok, core_ok) ==
    LET field == <<eik_calls, "fmm_field_data">>
        core  == <<eik_calls, "fmm_core_data">>
    IN  /\ eik_calls < MaxCalls
        /\ eik_calls' = eik_calls + 1
        /\ IF order \notin {1, 2}
             THEN /\ eik_heap' = eik_heap
                  /\ eik_ret' = [order |-> order,
                                 status |-> LSM_FMM_ERR_INVALID_SPATIAL_DISCRETIZATION_ORDER]
           ELSE IF ~field_ok
             THEN /\ eik_heap' = eik_heap
                  /\ eik_ret' = [order |-> order,
                                 status |-> LSM_FMM_ERR_FMM_DATA_CREATION_ERROR]
           ELSE IF ~core_ok
             THEN /\ eik_heap' = eik_heap \cup {field}
                  /\ eik_ret' = [order |-> order,
                                 status |-> LSM_FMM_ERR_FMM_DATA_CREATION_ERROR]
           ELSE   /\ eik_heap' = ((eik_heap \cup {field, core}) \ {core}) \ {field}
                  /\ eik_ret' = [order |-> order, status |-> LSM_FMM_ERR_SUCCESS]
        /\ UNCHANGED <<stack_vars, peb_vars, poly_vars, disp_vars, plan_vars, ord_vars, kern_vars, vol_vars, dev_vars, upd_vars, li_vars, cross_vars, x2_vars, mp_vars, tw_vars>>

NextEik ==
    \E order \in SpatialOrders, field_ok \in BOOLEAN, core_ok \in BOOLEAN :
        FMM_EIKONAL_SOLVE_EIKONAL_EQUATION(order, field_ok, core_ok)

\* C8: every block acquired in the Eikonal solve is released again on every
\* exit path, the invalid-order and the core-data-creation-failure returns
\* included: between calls nothing acquired by a solve is still held.
C8_AllReleased == eik_heap = {}

(***************************************************************************)
(* ===================== Aerial image: order placement =================== *)
(* src/OptolithiumC/src/opl_sim.cpp, _calc_aerial_image                    *)
(***************************************************************************)
\* the accepted efield sizes: 1, or even
FieldSizes == {n \in 1..MaxSize : n = 1 \/ n % 2 = 0}
Orders == (-MaxOrder)..MaxOrder

\* uint32_t e = (n + k - 1) % n with n uint32_t and k int32_t
OrderIndex(n, k) == UnsignedMod(n + k - 1, 32, n)

NoOrder == [n_rows |-> 0, n_cols |-> 0, ky |-> 0, kx |-> 0, e_row |-> 0, e_col |-> 0]

OrdInit == ord_ret = NoOrder

\* one iteration of the copy loop of _calc_aerial_image
PlaceOrder(n_rows, n_cols, ky, kx) ==
    /\ ord_ret' = [n_rows |-> n_rows, n_cols |-> n_cols, ky |-> ky, kx |-> kx,
                   e_row |-> OrderIndex(n_rows, ky), e_col |-> OrderIndex(n_cols, kx)]
    /\ UNCHANGED <<stack_vars, peb_vars, poly_vars, disp_vars, plan_vars, eik_vars, kern_vars, vol_vars, dev_vars, upd_vars, li_vars, cross_vars, x2_vars, mp_vars, tw_vars>>

NextOrd ==
    \E n_rows \in FieldSizes, n_cols \in FieldSizes, ky \in Orders, kx \in Orders :
        PlaceOrder(n_rows, n_cols, ky, kx)

\* C9: the value of order (kx, ky) is written to row (R + ky - 1) mod R and
\* column (C + kx - 1) mod C, mod being the non-negative remainder, whatever
\* the magnitude of the order.
C9_MathematicalPlacement ==
    ord_ret.n_rows > 0
        => /\ ord_ret.e_row = (ord_ret.n_rows + ord_ret.ky - 1) % ord_ret.n_rows
           /\ ord_ret.e_col = (ord_ret.n_cols + ord_ret.kx - 1) % ord_ret.n_cols

(***************************************************************************)
(* ====================== double arithmetic ============================== *)
(* A double is a binary floating-point number rounded to nearest, ties to  *)
(* even.  Here the significand has MantBits bits and a value x is held as  *)
(* the integer x * Unit; values below 2^(MantBits-1)/Unit lose precision   *)
(* gradually, as subnormals do.                                            *)
(***************************************************************************)
Unit == 4096

RECURSIVE Pow2(_)
Pow2(k) == IF k <= 0 THEN 1 ELSE 2 * Pow2(k - 1)

RECURSIVE Ilog2(_)
Ilog2(v) == IF v <= 1 THEN 0 ELSE 1 + Ilog2(v \div 2)

\* the spacing of the representable values around num/den >= 0
Ulp(num, den) ==
    LET j == Ilog2(num \div den)
    IN  IF j >= MantBits - 1 THEN Pow2(j - MantBits + 1) ELSE 1

\* num/den >= 0 rounded to the nearest representable value, ties to even
Round(num, den) ==
    LET u    == Ulp(num, den)
        q    == num \div (den * u)
        rem2 == 2 * (num - q * den * u)
    IN  IF rem2 > den * u \/ (rem2 = den * u /\ q % 2 = 1)
          THEN (q + 1) * u
          ELSE q * u

RoundSigned(n) == IF n >= 0 THEN Round(n, 1) ELSE -Round(-n, 1)

IsDouble(x) == RoundSigned(x) = x

fdiv(x, y) == Round(x * Unit, y)            \* x / y, x >= 0, y > 0
fadd(x, y) == RoundSigned(x + y)            \* x + y
fsub(x, y) == RoundSigned(x - y)            \* x - y
imul(k, x) == RoundSigned(k * x)            \* k * x, k an integer
FromInt(n) == RoundSigned(n * Unit)         \* static_cast<double>(n)
Ceil(x) == (x + Unit - 1) \div Unit         \* ceil(x) as an integer, x >= 0
Trunc(x) == x \div Unit                     \* (uint32_t) x, x >= 0
RoundHalfAway(x) == (2 * x + Unit) \div (2 * Unit)   \* round(x), x >= 0
Fmod(x, y) == x % y                         \* fmod(x, y), exact, x >= 0, y > 0

(***************************************************************************)
(* ============================ ResistVolume ============================= *)
(* src/OptolithiumC/include/opl_capi.h, src/OptolithiumC/src/opl_capi.cpp  *)
(***************************************************************************)
\* the n of _calc_lateral_step after its adjustment; n - 1 = 0 divides to
\* +infinity, which is greater than any desired_step
LateralN(mask_pitch, desired_step) ==
    LET n == Ceil(fdiv(mask_pitch, desired_step))
    IN  IF n - 1 = 0 \/ fdiv(mask_pitch, FromInt(n - 1)) > desired_step
          THEN n + (IF n % 2 # 0 THEN 2 ELSE 1)
          ELSE n

_calc_lateral_step(mask_pitch, desired_step) ==
    IF mask_pitch = 0 \/ desired_step = 0
      THEN 0
      ELSE fdiv(mask_pitch, FromInt(LateralN(mask_pitch, desired_step) - 1))

_calc_normal_step(thickness, desired_step) ==
    IF thickness = 0 \/ desired_step = 0
      THEN 0
      ELSE LET tmp == fdiv(thickness, desired_step)
           IN  IF fsub(tmp, FromInt(RoundHalfAway(tmp))) # 0
                 THEN fdiv(thickness, FromInt(Ceil(fadd(tmp, Unit))))
                 ELSE desired_step

_get_count(size, step, offset) ==
    IF size = 0 \/ step = 0
      THEN 1
      ELSE Trunc(fadd(FromInt(Ceil(fdiv(size, step))), FromInt(offset)))

\* _init_vector: vec(k) = k * step + start, k = 0 .. n_elem-1 (here at k+1)
_init_vector(n_elem, start, step) ==
    [k \in 1..n_elem |-> fadd(imul(k - 1, step), start)]

\* slices = _get_count(thickness, stepz); if (slices != 1) slices++
Slices(thickness, stepz) ==
    LET slices == _get_count(thickness, stepz, 0)
    IN  IF slices # 1 THEN slices + 1 ELSE slices

NoVolume == [built |-> FALSE, size_x |-> 0, size_y |-> 0, thickness |-> 0,
             desired_stepxy |-> 0, desired_stepz |-> 0,
             stepx |-> 0, stepy |-> 0, stepz |-> 0,
             row |-> 0, col |-> 0, slices |-> 0, z |-> <<>>]

VolInit == vol_ret = NoVolume

\* ResistVolume::ResistVolume(boundary, thickness, desired_stepxy, desired_stepz)
ResistVolume(size_x, size_y, thickness, desired_stepxy, desired_stepz) ==
    LET stepx  == _calc_lateral_step(size_x, desired_stepxy)
        stepy  == _calc_lateral_step(size_y, desired_stepxy)
        stepz  == _calc_normal_step(thickness, desired_stepz)
        slices == Slices(thickness, stepz)
    IN  /\ vol_ret' = [built |-> TRUE, size_x |-> size_x, size_y |-> size_y,
                       thickness |-> thickness,
                       desired_stepxy |-> desired_stepxy,
                       desired_stepz |-> desired_stepz,
                       stepx |-> stepx, stepy |-> stepy, stepz |-> stepz,
                       row |-> _get_count(size_y, stepy, 1),
                       col |-> _get_count(size_x, stepx, 1),
                       slices |-> slices,
                       z |-> _init_vector(slices, thickness, -stepz)]
        /\ UNCHANGED <<stack_vars, peb_vars, poly_vars, disp_vars, plan_vars, eik_vars, ord_vars, kern_vars, dev_vars, upd_vars, li_vars, cross_vars, x2_vars, mp_vars, tw_vars>>

\* the argument values, in quarters of a length unit
Quarter(k) == k * (Unit \div 4)
SizesX == {Quarter(k) : k \in 0..MaxPitch4}
SizesY == {0, Quarter(16), Quarter(41)}
Thicknesses == {Quarter(k) : k \in 0..MaxThick4}
DesiredStepsXY == {Quarter(3), Quarter(5), Quarter(8)}
DesiredStepsZ == {Quarter(1), Quarter(3), Quarter(4)}

NextVol ==
    /\ ~vol_ret.built
    /\ \E size_x \in SizesX, size_y \in SizesY, thickness \in Thicknesses,
          desired_stepxy \in DesiredStepsXY, desired_stepz \in DesiredStepsZ :
           ResistVolume(size_x, size_y, thickness, desired_stepxy, desired_stepz)

\* C12: for thickness > 0 and desired vertical step > 0 the vertical samples
\* tile the thickness: z starts at the thickness, goes down by one equal step
\* per slice and ends at z = 0 (each up to less than half a step of rounding).
C12_TilesThickness ==
    (vol_ret.built /\ vol_ret.thickness > 0 /\ vol_ret.desired_stepz > 0)
        => /\ vol_ret.slices >= 2
           /\ vol_ret.z[1] = vol_ret.thickness
           /\ 2 * vol_ret.z[vol_ret.slices] < vol_ret.stepz
           /\ 2 * vol_ret.z[vol_ret.slices] > -vol_ret.stepz
           /\ \A k \in 1..(vol_ret.slices - 1) :
                  /\ 2 * (vol_ret.z[k] - vol_ret.z[k + 1]) > vol_ret.stepz
                  /\ 2 * (vol_ret.z[k] - vol_ret.z[k + 1]) < 3 * vol_ret.stepz

\* C13: the x-count and the y-count of a ResistVolume are odd whenever the
\* corresponding pitch dimension is > 0.
C13_LateralCountsOdd ==
    vol_ret.built
        => /\ (vol_ret.size_x > 0 => vol_ret.col % 2 = 1)
           /\ (vol_ret.size_y > 0 => vol_ret.row % 2 = 1)

(***************************************************************************)
(* ======================= PebResistModel::kernel ======================== *)
(* src/OptolithiumC/src/opl_capi.cpp                                       *)
(***************************************************************************)
\* sigma_on_grid = ceil(3 sigma) - fmod(ceil(3 sigma), step) + step
SigmaOnGrid(sigma, step) ==
    LET c == FromInt(Ceil(imul(3, sigma)))
    IN  fadd(fsub(c, Fmod(c, step)), step)

\* count = (uint32_t)(2*sigma_on_grid/step) + 1; one element when step == 0
KernelCount(sigma, step) ==
    IF step # 0
      THEN Trunc(fdiv(imul(2, SigmaOnGrid(sigma, step)), step)) + 1
      ELSE 1

NoKernel == [sigma |-> 0, step |-> 0, count |-> 0]

KernInit == kern_ret = NoKernel

kernel(sigma, step) ==
    /\ kern_ret' = [sigma |-> sigma, step |-> step, count |-> KernelCount(sigma, step)]
    /\ UNCHANGED <<stack_vars, peb_vars, poly_vars, disp_vars, plan_vars, eik_vars, ord_vars, vol_vars, dev_vars, upd_vars, li_vars, cross_vars, x2_vars, mp_vars, tw_vars>>

\* diffusion lengths in quarters of a unit; steps 0 and every double of
\* [1/4, MaxStepUnits/Unit]
Sigmas == {Quarter(k) : k \in 1..MaxSigma4}
Steps == {0} \cup {v \in Quarter(1)..MaxStepUnits : IsDouble(v)}

NextKern == \E sigma \in Sigmas, step \in Steps : kernel(sigma, step)

\* C11: for every grid step > 0 the kernel length is odd, and it is the
\* smallest odd number n of grid points whose half-width (n-1)/2 * step
\* covers 3 sigma.
C11_OddAndSmallest ==
    (kern_ret.count > 0 /\ kern_ret.step > 0)
        => /\ kern_ret.count % 2 = 1
           /\ ((kern_ret.count - 1) \div 2) * kern_ret.step >= 3 * kern_ret.sigma
           /\ (kern_ret.count >= 3 =>
                  ((kern_ret.count - 3) \div 2) * kern_ret.step < 3 * kern_ret.sigma)

(***************************************************************************)
(* ================== develop_time_contours and Eikonal ================== *)
(* src/OptolithiumC/src/opl_sim.cpp, libs/eikonal/src/FMM_eikonal2d.c.     *)
(* The cube is a column of 1 x 1 x n_slices voxels with unit slice step;   *)
(* on a column the quadratic of the update has a rational root, so phi is  *)
(* held exactly as a fraction n/d.  The marching core (FMM_Core) follows   *)
(* the standard fast-marching method the documentation describes.          *)
(***************************************************************************)
RECURSIVE Gcd(_, _)
Gcd(a, b) == IF b = 0 THEN a ELSE Gcd(b, a % b)

Rat(n, d) ==
    LET g == Gcd(IF n < 0 THEN -n ELSE n, d)
    IN  [n |-> n \div g, d |-> d \div g]

RAdd(a, b) == Rat(a.n * b.d + b.n * a.d, a.d * b.d)
RSub(a, b) == Rat(a.n * b.d - b.n * a.d, a.d * b.d)
RScale(a, n, d) == Rat(a.n * n, a.d * d)
RAbs(a) == [n |-> IF a.n < 0 THEN -a.n ELSE a.n, d |-> a.d]
RLess(a, b) == a.n * b.d < b.n * a.d
RLeq(a, b) == a.n * b.d <= b.n * a.d

LSMLIB_REAL_MAX == Rat(1000000, 1)
Sentinel == Rat(-1, 1)          \* develop.fill(-1.0)
Zero == Rat(0, 1)

FAR == "FAR"
TRIAL == "TRIAL"
KNOWN == "KNOWN"
OUTSIDE_DOMAIN == "OUTSIDE_DOMAIN"

\* the KNOWN value at index i, or LSMLIB_REAL_MAX
KnownAt(phi, status, i) ==
    IF i \in 1..Len(phi) /\ status[i] = KNOWN THEN phi[i] ELSE LSMLIB_REAL_MAX

\* the upwind pair (phi_upwind1, phi_upwind2, second_order_switch) of the
\* slice direction at point i
Upwind(phi, status, i, order) ==
    LET minus1 == KnownAt(phi, status, i - 1)
        plus1  == KnownAt(phi, status, i + 1)
        side   == IF RLess(RAbs(plus1), RAbs(minus1)) THEN 1 ELSE -1
        up1    == IF side = 1 THEN plus1 ELSE minus1
        up2    == KnownAt(phi, status, i + 2 * side)
        second == /\ order = 2
                  /\ up1 # LSMLIB_REAL_MAX
                  /\ up2 # LSMLIB_REAL_MAX
                  /\ RLeq(RAbs(up2), RAbs(up1))
    IN  [up1 |-> up1, up2 |-> up2, second |-> second]

\* FMM_EIKONAL_UPDATE_GRID_POINT_ORDER1 / ORDER2 on the column: with one
\* contributing direction the discriminant is 4 s^2/(dz F)^2 >= 0 and the
\* root is (contrib + dz/F)/s, s = 1 + second/2
UpdateGridPoint(phi, status, rates, i, order) ==
    LET u == Upwind(phi, status, i, order)
    IN  IF u.up1 = LSMLIB_REAL_MAX
          THEN phi                                  \* no KNOWN neighbors
          ELSE LET contrib == IF u.second
                                THEN RSub(RScale(u.up1, 2, 1), RScale(u.up2, 1, 2))
                                ELSE u.up1
                   root    == RAdd(contrib, Rat(1, rates[i]))
               IN  [phi EXCEPT ![i] = IF u.second THEN RScale(root, 2, 3) ELSE root]

\* the TRIAL point of least phi
MinTrial(phi, status) ==
    CHOOSE i \in 1..Len(phi) :
        /\ status[i] = TRIAL
        /\ \A j \in 1..Len(phi) : status[j] = TRIAL => RLeq(phi[i], phi[j])

\* update the neighbors of point i that are neither KNOWN nor outside
RECURSIVE UpdateNeighbors(_, _, _, _, _)
UpdateNeighbors(ps, rates, i, todo, order) ==
    IF todo = {} THEN ps
    ELSE LET j == CHOOSE x \in todo : TRUE
         IN  IF j \in 1..Len(rates) /\ ps.status[j] \in {FAR, TRIAL}
               THEN UpdateNeighbors(
                        [phi    |-> UpdateGridPoint(ps.phi, ps.status, rates, j, order),
                         status |-> [ps.status EXCEPT ![j] = TRIAL]],
                        rates, i, todo \ {j}, order)
               ELSE UpdateNeighbors(ps, rates, i, todo \ {j}, order)

\* FMM_Core_initializeFront after the callback: the neighbors of every front
\* point become TRIAL
RECURSIVE InitTrials(_, _, _, _)
InitTrials(ps, rates, front, order) ==
    IF front = {} THEN ps
    ELSE LET i == CHOOSE x \in front : TRUE
         IN  InitTrials(UpdateNeighbors(ps, rates, i, {i - 1, i + 1}, order),
                        rates, front \ {i}, order)

\* while (FMM_Core_moreGridPointsToUpdate) FMM_Core_advanceFront
RECURSIVE March(_, _, _)
March(ps, rates, order) ==
    IF \A i \in 1..Len(rates) : ps.status[i] # TRIAL THEN ps
    ELSE LET i == MinTrial(ps.phi, ps.status)
             accepted == [ps EXCEPT !.status[i] = KNOWN]
         IN  March(UpdateNeighbors(accepted, rates, i, {i - 1, i + 1}, order),
                   rates, order)

\* the loop of the solve that marks points of speed < LSMLIB_ZERO_TOL outside
\* the domain and sets their phi to LSMLIB_REAL_MAX (mask is a null pointer)
MarkOutside(phi, rates) ==
    [phi    |-> [i \in 1..Len(rates) |->
                    IF rates[i] = 0 THEN LSMLIB_REAL_MAX ELSE phi[i]],
     status |-> [i \in 1..Len(rates) |->
                    IF rates[i] = 0 THEN OUTSIDE_DOMAIN ELSE FAR]]

\* FMM_EIKONAL_INITIALIZE_FRONT: points with phi > -LSMLIB_ZERO_TOL that are
\* not outside the domain are the initial front
InitializeFront(ps) ==
    LET front == {i \in 1..Len(ps.phi) :
                     ~RLess(ps.phi[i], Zero) /\ ps.status[i] # OUTSIDE_DOMAIN}
    IN  [ps |-> [ps EXCEPT !.status = [i \in 1..Len(ps.phi) |->
                                          IF i \in front THEN KNOWN ELSE ps.status[i]]],
         front |-> front]

\* FMM_EIKONAL_SOLVE_EIKONAL_EQUATION on the column, successful allocation
SolveEikonal(phi, rates, order) ==
    LET f == InitializeFront(MarkOutside(phi, rates))
    IN  March(InitTrials(f.ps, rates, f.front, order), rates, order)

\* develop.fill(-1.0); develop.slice(n_slices-1).fill(zeros)
InitialDevelop(n_slices) ==
    [i \in 1..n_slices |-> IF i = n_slices THEN Zero ELSE Sentinel]

DevInit ==
    /\ dev_rates = <<>>
    /\ dev_phi = <<>>
    /\ dev_status = <<>>

\* develop_time_contours: rates(r, c, s) from the rate model, then solve3d
\* with derivative_order = 2
develop_time_contours(rates) ==
    LET solved == SolveEikonal(InitialDevelop(Len(rates)), rates, 2)
    IN  /\ dev_rates' = rates
        /\ dev_phi' = solved.phi
        /\ dev_status' = solved.status
        /\ UNCHANGED <<stack_vars, peb_vars, poly_vars, disp_vars, plan_vars, eik_vars, ord_vars, kern_vars, vol_vars, upd_vars, li_vars, cross_vars, x2_vars, mp_vars, tw_vars>>

RateValues == 0..MaxRate
RateColumns == UNION {[1..n -> RateValues] : n \in 1..MaxDepth}

NextDev ==
    /\ dev_rates = <<>>
    /\ \E rates \in RateColumns : develop_time_contours(rates)

\* C14: every voxel of the returned cube is a non-negative time or the
\* floating-point maximum of an outside-domain point; none still holds the
\* -1 of the initial cube.
C14_NoSentinelLeft ==
    \A i \in 1..Len(dev_phi) :
        /\ dev_phi[i] # Sentinel
        /\ \/ dev_phi[i] = LSMLIB_REAL_MAX
           \/ (~RLess(dev_phi[i], Zero) /\ RLess(dev_phi[i], LSMLIB_REAL_MAX))

(***************************************************************************)
(* ======== FMM_EIKONAL_UPDATE_GRID_POINT_ORDER1 / ORDER2 (2D) =========== *)
(* A point with neighbors minus1, minus2, plus1, plus2 in direction 0 and  *)
(* minus1, minus2 in direction 1 (it lies on the upper edge there); a      *)
(* neighbor that is not KNOWN is given as LSMLIB_REAL_MAX; dx = (1, 1).    *)
(***************************************************************************)
RMul(a, b) == Rat(a.n * b.n, a.d * b.d)

\* phi_upwind1, phi_upwind2 and second_order_switch of one direction
UpwindOf(minus1, minus2, plus1, plus2, order) ==
    LET afterMinus ==
            IF minus1 # LSMLIB_REAL_MAX
              THEN IF order = 2 /\ minus2 # LSMLIB_REAL_MAX
                                /\ RLeq(RAbs(minus2), RAbs(minus1))
                     THEN [up1 |-> minus1, up2 |-> minus2, second |-> TRUE]
                     ELSE [up1 |-> minus1, up2 |-> LSMLIB_REAL_MAX, second |-> FALSE]
              ELSE [up1 |-> LSMLIB_REAL_MAX, up2 |-> LSMLIB_REAL_MAX, second |-> FALSE]
    IN  IF plus1 # LSMLIB_REAL_MAX /\ RLess(RAbs(plus1), RAbs(afterMinus.up1))
          THEN IF order = 2 /\ plus2 # LSMLIB_REAL_MAX
                            /\ RLeq(RAbs(plus2), RAbs(plus1))
                 THEN [up1 |-> plus1, up2 |-> plus2, second |-> TRUE]
                 ELSE [up1 |-> plus1, up2 |-> LSMLIB_REAL_MAX, second |-> FALSE]
          ELSE afterMinus

\* the terms one direction adds to phi_A, phi_B, phi_C
Coefs(u) ==
    IF u.up1 = LSMLIB_REAL_MAX
      THEN [A |-> Zero, B |-> Zero, C |-> Zero]
      ELSE LET s == IF u.second THEN Rat(3, 2) ELSE Rat(1, 1)
               contrib == IF u.second
                            THEN RSub(RScale(u.up1, 2, 1), RScale(u.up2, 1, 2))
                            ELSE u.up1
           IN  [A |-> RMul(s, s), B |-> RMul(s, contrib), C |-> RMul(contrib, contrib)]

\* (the value the negative-discriminant branch would leave without its
\* assignment: phi_updated = LSMLIB_REAL_MAX)
KeptValueMax(phi_cur) == LSMLIB_REAL_MAX

\* phi_updated = phi[idx_cur_gridpoint] in the negative-discriminant branch
KeptValue(phi_cur) == phi_cur

\* the update: the branch taken, phi at the point afterwards, the value
\* returned and the lines written to stderr.  A non-negative discriminant
\* gives the root 0.5*(-phi_B + sqrt(discriminant))/phi_A, held by its
\* coefficients.
GridPointUpdate(phi_cur, n0, n1, speed, order) ==
    LET c0   == Coefs(UpwindOf(n0[1], n0[2], n0[3], n0[4], order))
        c1   == Coefs(UpwindOf(n1[1], n1[2], LSMLIB_REAL_MAX, LSMLIB_REAL_MAX, order))
        A    == RAdd(c0.A, c1.A)
        B    == RScale(RAdd(c0.B, c1.B), -2, 1)
        C    == RSub(RAdd(c0.C, c1.C), Rat(1, speed * speed))
        disc == RSub(RMul(B, B), RScale(RMul(A, C), 4, 1))
        root == [n |-> 0, d |-> 1, A |-> A, B |-> B, disc |-> disc]
        val(x) == [n |-> x.n, d |-> x.d, A |-> Zero, B |-> Zero, disc |-> Zero]
    IN  IF A = Zero
          THEN [branch |-> "no KNOWN neighbors", phi |-> val(phi_cur),
                returned |-> val(LSMLIB_REAL_MAX),
                stderr |-> <<"ERROR: phi update - no KNOWN neighbors!!!",
                             "       phi set to 'infinity'.">>]
        ELSE IF ~RLess(disc, Zero)
          THEN [branch |-> "root", phi |-> root, returned |-> root, stderr |-> <<>>]
          ELSE [branch |-> "negative discriminant", phi |-> val(KeptValue(phi_cur)),
                returned |-> val(KeptValue(phi_cur)), stderr |-> <<>>]

NoUpdate == [called |-> FALSE, phi_cur |-> Zero, order |-> 0, speed |-> 0,
             branch |-> "none", phi |-> Zero, returned |-> Zero, stderr |-> <<>>]

UpdInit == upd_ret = NoUpdate

FMM_EIKONAL_UPDATE_GRID_POINT(phi_cur, n0, n1, speed, order) ==
    LET r == GridPointUpdate(phi_cur, n0, n1, speed, order)
    IN  /\ upd_ret' = [called |-> TRUE, phi_cur |-> phi_cur, order |-> order,
                       speed |-> speed, branch |-> r.branch, phi |-> r.phi,
                       returned |-> r.returned, stderr |-> r.stderr]
        /\ UNCHANGED <<stack_vars, peb_vars, poly_vars, disp_vars, plan_vars, eik_vars, ord_vars, kern_vars, vol_vars, dev_vars, li_vars, cross_vars, x2_vars, mp_vars, tw_vars>>

NeighborValues == {LSMLIB_REAL_MAX} \cup {Rat(k, 1) : k \in 0..MaxPhi}
CurrentValues == {Sentinel} \cup {Rat(k, 1) : k \in 0..MaxPhi}

NextUpd ==
    /\ ~upd_ret.called
    /\ \E phi_cur \in CurrentValues, n0 \in [1..4 -> NeighborValues],
          n1 \in [1..2 -> NeighborValues], speed \in 1..MaxRate, order \in {1, 2} :
           FMM_EIKONAL_UPDATE_GRID_POINT(phi_cur, n0, n1, speed, order)

AsValue(x) == [n |-> x.n, d |-> x.d]

\* C15 as stated: with a negative discriminant the previous phi is kept, a
\* diagnostic is emitted and no error reaches the caller.
C15_AsStated ==
    upd_ret.branch = "negative discriminant"
        => /\ AsValue(upd_ret.phi) = upd_ret.phi_cur
           /\ upd_ret.stderr # <<>>
           /\ AsValue(upd_ret.returned) # LSMLIB_REAL_MAX

\* C15, amended: with a negative discriminant the previous phi is kept and
\* returned, nothing is written to stderr and no error (no "infinity")
\* reaches the caller.
C15_KeptSilently ==
    upd_ret.branch = "negative discriminant"
        => /\ AsValue(upd_ret.phi) = upd_ret.phi_cur
           /\ AsValue(upd_ret.returned) = upd_ret.phi_cur
           /\ upd_ret.stderr = <<>>
           /\ AsValue(upd_ret.returned) # LSMLIB_REAL_MAX

\* a second-order update with a negative discriminant at a point that already
\* had a value
C15_Witness ==
    /\ upd_ret.branch = "negative discriminant"
    /\ upd_ret.order = 2
    /\ ~RLess(upd_ret.phi_cur, Zero)
    /\ AsValue(upd_ret.phi) = upd_ret.phi_cur

(***************************************************************************)
(* ======================== Linear interpolation ========================= *)
(* opl_interp.cpp.  arma::vec and arma::mat check every element, row and   *)
(* column access against the size and throw std::logic_error.  The values  *)
(* are doubles in the arithmetic defined above.                            *)
(***************************************************************************)
Sign(v) == IF v < 0 THEN -1 ELSE 1

\* x * y
fmul(x, y) == Sign(x) * Sign(y) * Round(Abs(x) * Abs(y), Unit)

\* x / y, y # 0
fquot(x, y) == Sign(x) * Sign(y) * Round(Abs(x) * Unit, Abs(y))

\* const int32_t sdx = (x(x.n_elem-1) - x(0)) > 0 ? 1 : -1, taken for
\* ascending tables only
sdx_ascending(x) == 1

\* const int32_t sdx = (x(x.n_elem-1) - x(0)) > 0 ? 1 : -1
sdx(x) == IF fsub(x[Len(x)], x[1]) > 0 THEN 1 ELSE -1

\* interp::_get_base_index, 0-based
_get_base_index(x, xi) ==
    LET hits == { k \in 0..(Len(x) - 2) :
                    /\ sdx(x) * xi >= sdx(x) * x[k + 1]
                    /\ sdx(x) * xi <= sdx(x) * x[k + 2] }
    IN  IF hits = {} THEN 0 ELSE CHOOSE k \in hits : \A h \in hits : k <= h

\* The values of k the constructor's loop "k < x.n_elem-1" starts on; for an
\* empty x the unsigned x.n_elem-1 wraps around and the loop is entered
LoopIndices(n_elem) == IF n_elem = 0 THEN {0} ELSE 0..(n_elem - 2)

\* Whether LinearInterpolation1d's constructor reads or writes an element
\* out of bounds: x(k), x(k+1), y(k), y(k+1), s(k), b(k)
Throws1d(nx, ny) ==
    \E k \in LoopIndices(nx) : k + 1 >= nx \/ k + 1 >= ny

\* s(k) and b(k) of the constructor, k 0-based; s and b have x.n_elem
\* elements, the last of which is never written nor read
Slope(x, y, k) == fquot(fsub(y[k + 2], y[k + 1]), fsub(x[k + 2], x[k + 1]))
Intercept(x, y, k) ==
    fquot(fsub(fmul(x[k + 2], y[k + 1]), fmul(x[k + 1], y[k + 2])),
          fsub(x[k + 2], x[k + 1]))

NoInterp1d == [status |-> "none", px |-> <<>>, py |-> <<>>, s |-> <<>>,
               b |-> <<>>, fill |-> 0]
NoInterp2d == [status |-> "none", nx |-> 0, ny |-> 0, n_rows |-> 0, n_cols |-> 0]
NoInterpolate == [called |-> FALSE, xi |-> 0, status |-> "ok", value |-> 0]

InterpInit ==
    /\ li1 = NoInterp1d
    /\ li2 = NoInterp2d
    /\ li_ret = NoInterpolate

\* LinearInterpolation1d::LinearInterpolation1d(px, py, fill)
LinearInterpolation1d(px, py, fill) ==
    /\ li1.status = "none"
    /\ li1' = IF Throws1d(Len(px), Len(py))
                THEN [NoInterp1d EXCEPT !.status = "logic_error",
                                        !.px = px, !.py = py, !.fill = fill]
                ELSE [status |-> "ok", px |-> px, py |-> py,
                      s |-> [i \in 1..(Len(px) - 1) |-> Slope(px, py, i - 1)],
                      b |-> [i \in 1..(Len(px) - 1) |-> Intercept(px, py, i - 1)],
                      fill |-> fill]
    /\ UNCHANGED <<li2, li_ret>>
    /\ UNCHANGED <<stack_vars, peb_vars, poly_vars, disp_vars, plan_vars, eik_vars, ord_vars, kern_vars, vol_vars, dev_vars, upd_vars, cross_vars, x2_vars, mp_vars, tw_vars>>

\* LinearInterpolation2d::LinearInterpolation2d(px, py, values, fill): one
\* LinearInterpolation1d(px, row r) for every r < py->n_elem, then
\* values->col(px->n_elem-1) and LinearInterpolation1d(py, last_col).  Only
\* the shapes are kept: they alone decide which access is out of bounds.
LinearInterpolation2d(nx, ny, n_rows, n_cols) ==
    /\ li2.status = "none"
    /\ LET row_throws == \E r \in 0..(ny - 1) : r >= n_rows \/ Throws1d(nx, n_cols)
           col_throws == nx = 0 \/ nx - 1 >= n_cols
           last_throws == Throws1d(ny, n_rows)
       IN  li2' = [status |-> IF row_throws \/ col_throws \/ last_throws
                                THEN "logic_error" ELSE "ok",
                   nx |-> nx, ny |-> ny, n_rows |-> n_rows, n_cols |-> n_cols]
    /\ UNCHANGED <<li1, li_ret>>
    /\ UNCHANGED <<stack_vars, peb_vars, poly_vars, disp_vars, plan_vars, eik_vars, ord_vars, kern_vars, vol_vars, dev_vars, upd_vars, cross_vars, x2_vars, mp_vars, tw_vars>>

\* double LinearInterpolation1d::interpolate(double xi) const
interpolate(xi) ==
    /\ li1.status = "ok"
    /\ LET x == li1.px
           y == li1.py
       IN  li_ret' =
             IF sdx(x) * xi < sdx(x) * x[1] \/ sdx(x) * xi > sdx(x) * x[Len(x)]
               THEN [called |-> TRUE, xi |-> xi, status |-> "ok", value |-> li1.fill]
             ELSE IF xi = x[1] \/ xi = x[Len(x)]
               THEN IF Len(y) = 0
                      THEN [called |-> TRUE, xi |-> xi, status |-> "logic_error",
                            value |-> 0]
                      ELSE [called |-> TRUE, xi |-> xi, status |-> "ok",
                            value |-> IF xi = x[1] THEN y[1] ELSE y[Len(y)]]
             ELSE LET k == _get_base_index(x, xi)
                  IN  [called |-> TRUE, xi |-> xi, status |-> "ok",
                       value |-> fadd(fmul(li1.s[k + 1], xi), li1.b[k + 1])]
    /\ UNCHANGED <<li1, li2>>
    /\ UNCHANGED <<stack_vars, peb_vars, poly_vars, disp_vars, plan_vars, eik_vars, ord_vars, kern_vars, vol_vars, dev_vars, upd_vars, cross_vars, x2_vars, mp_vars, tw_vars>>

\* Tables: strictly ascending or strictly descending px, any py
Coordinates == { FromInt(n) : n \in 0..MaxX }
Values == { FromInt(n) : n \in 0..MaxY }
Fill == FromInt(-1)
Monotone(x) ==
    \/ \A i \in 1..(Len(x) - 1) : x[i] < x[i + 1]
    \/ \A i \in 1..(Len(x) - 1) : x[i] > x[i + 1]
CoordinateTables ==
    { x \in UNION { [1..n -> Coordinates] : n \in 0..MaxLen } : Monotone(x) }
ValueTables == UNION { [1..n -> Values] : n \in 0..MaxLen }
Arguments == { FromInt(n) : n \in -1..(MaxX + 1) }

NextInterp ==
    \/ /\ li1.status = "none" /\ li2.status = "none"
       /\ \E px \in CoordinateTables, py \in ValueTables :
              LinearInterpolation1d(px, py, Fill)
    \/ /\ li1.status = "none" /\ li2.status = "none"
       /\ \E nx, ny, n_rows, n_cols \in 0..MaxLen :
              LinearInterpolation2d(nx, ny, n_rows, n_cols)
    \/ \E xi \in Arguments : interpolate(xi)

\* C18: constructing a linear interpolator (1D or 2D) from coordinate and
\* value arrays whose dimensions do not match fails, for every mismatching
\* pair of sizes.
C18_MismatchIsFatal ==
    /\ (li1.status # "none" /\ Len(li1.px) # Len(li1.py))
           => li1.status = "logic_error"
    /\ (li2.status # "none" /\ (li2.n_cols # li2.nx \/ li2.n_rows # li2.ny))
           => li2.status = "logic_error"

\* C20 as stated: evaluating at any tabulated x returns the tabulated y
\* exactly, and evaluating outside [x_min, x_max] returns the fill value,
\* for ascending and for descending tables.
C20_AsStated ==
    (li_ret.called /\ Len(li1.px) = Len(li1.py)) =>
        /\ \A j \in 1..Len(li1.px) :
               li_ret.xi = li1.px[j] => li_ret.value = li1.py[j]
        /\ ((\A j \in 1..Len(li1.px) : li_ret.xi < li1.px[j])
             \/ (\A j \in 1..Len(li1.px) : li_ret.xi > li1.px[j]))
               => li_ret.value = li1.fill

\* C20, amended: evaluating at the first or the last tabulated x returns the
\* tabulated y exactly, and evaluating outside [x_min, x_max] returns the
\* fill value, for ascending and for descending tables.
C20_BoundaryExact ==
    (li_ret.called /\ Len(li1.px) = Len(li1.py)) =>
        /\ \A j \in {1, Len(li1.px)} :
               li_ret.xi = li1.px[j] => li_ret.value = li1.py[j]
        /\ ((\A j \in 1..Len(li1.px) : li_ret.xi < li1.px[j])
             \/ (\A j \in 1..Len(li1.px) : li_ret.xi > li1.px[j]))
               => li_ret.value = li1.fill

\* a descending table of three points has been evaluated at its last x
C20_Witness ==
    /\ li_ret.called
    /\ Len(li1.px) = 3
    /\ Len(li1.py) = 3
    /\ li1.px[1] > li1.px[3]
    /\ li_ret.xi = li1.px[3]
    /\ li_ret.value = li1.py[3]
    /\ li1.py[3] # li1.py[1]

(***************************************************************************)
(* ========================= Edge2d::cross_type ========================== *)
(* opl_geometry.cpp.  On integer coordinates the quotient -num/denom is    *)
(* compared with 0.0 and 1.0 exactly as the fraction is.                   *)
(***************************************************************************)
\* The parameter t that Edge2d::intersect writes for edges that are not
\* parallel: t = -num/denom
IntersectT(this, e) ==
    LET n == <<Minus(e.dst, e.org)[2], Minus(e.org, e.dst)[1]>>
        denom == dot(n, Minus(this.dst, this.org))
        num == dot(n, Minus(this.org, e.org))
    IN  Rat(IF denom < 0 THEN num ELSE -num, Abs(denom))

NoCross == [called |-> FALSE, this |-> Edge2d(<<0, 0>>, <<0, 0>>),
            e |-> Edge2d(<<0, 0>>, <<0, 0>>), result |-> "none"]

CrossInit == cross_ret = NoCross

\* Edge2d::cross_type
cross_type(this, e) ==
    /\ LET cross == intersect(e, this)
           s == IntersectT(e, this)
           t == IntersectT(this, e)
       IN  cross_ret' =
             [called |-> TRUE, this |-> this, e |-> e,
              result |->
                IF cross = "COLLINEAR" \/ cross = "PARALLEL" THEN cross
                ELSE IF RLess(s, Zero) \/ RLess(Rat(1, 1), s) THEN "SKEW_NO_CROSS"
                ELSE IF RLeq(Zero, t) \/ RLeq(t, Rat(1, 1)) THEN "SKEW_CROSS"
                ELSE "SKEW_NO_CROSS"]
    /\ UNCHANGED <<stack_vars, peb_vars, poly_vars, disp_vars, plan_vars, eik_vars, ord_vars, kern_vars, vol_vars, dev_vars, upd_vars, li_vars, x2_vars, mp_vars, tw_vars>>

NextCross ==
    /\ ~cross_ret.called
    /\ \E a, b, c, d \in Points2d : cross_type(Edge2d(a, b), Edge2d(c, d))

\* C26: for any two non-parallel edges, cross_type returns SKEW_CROSS exactly
\* when the intersection parameter lies in [0, 1] on both edges, and
\* SKEW_NO_CROSS otherwise.
C26_CrossExactlyWhenBothInside ==
    (cross_ret.called /\ cross_ret.result \notin {"COLLINEAR", "PARALLEL"}) =>
        LET s == IntersectT(cross_ret.e, cross_ret.this)
            t == IntersectT(cross_ret.this, cross_ret.e)
            inside == /\ RLeq(Zero, s) /\ RLeq(s, Rat(1, 1))
                      /\ RLeq(Zero, t) /\ RLeq(t, Rat(1, 1))
        IN  cross_ret.result = IF inside THEN "SKEW_CROSS" ELSE "SKEW_NO_CROSS"

(***************************************************************************)
(* ================= Two-dimensional plan: data flow ===================== *)
(* src/OptolithiumC/libs/fourier/src/fourier.c, include/opl_fft.h,         *)
(* src/opl_sim.cpp                                                         *)
(*                                                                         *)
(* A sample is <<re, im>> with integer parts.  The dimensions are powers   *)
(* of two up to 4, for which every twiddle is a power of i and the         *)
(* transforms are exact.  Buffer "a" is the caller's input array, "b" the  *)
(* caller's output array of an out-of-place plan, "tmpbuf" the plan's own. *)
(***************************************************************************)
FFT_LITHO_FORWARD == -1
FFT_LITHO_BACKWARD == 1

\* the array dimensions tried
Dims2d == {Pow2(e) : e \in 0..MaxLog2Dim}

c_add(x, y) == <<x[1] + y[1], x[2] + y[2]>>

\* z * exp(i*pi/2 * q)
c_rot(z, q) ==
    CASE q % 4 = 0 -> z
      [] q % 4 = 1 -> <<-z[2], z[1]>>
      [] q % 4 = 2 -> <<-z[1], -z[2]>>
      [] q % 4 = 3 -> <<z[2], -z[1]>>

\* sum over n = from .. count-1 of in[base + n*dist] * exp(direction*2*pi*i*n*k/count)
RECURSIVE DftSum(_, _, _, _, _, _, _)
DftSum(in, base, dist, k, from, count, direction) ==
    IF from = count THEN <<0, 0>>
    ELSE c_add(c_rot(in[base + from * dist + 1], direction * from * k * (4 \div count)),
               DftSum(in, base, dist, k, from + 1, count, direction))

\* What fft_mixed_radix leaves in the output buffer: the transform of signal
\* s, samples in[s*istride + k*idist], goes to out[s*ostride + k*odist];
\* the other entries of out are not touched.
MixedRadixOutput(in, out, count, howMany, stride, dist, direction) ==
    [i \in 1..Len(out) |->
        IF \E s \in 0..(howMany - 1), k \in 0..(count - 1) : s * stride + k * dist = i - 1
          THEN LET s == CHOOSE s \in 0..(howMany - 1) :
                           \E k \in 0..(count - 1) : s * stride + k * dist = i - 1
                   k == CHOOSE k \in 0..(count - 1) : s * stride + k * dist = i - 1
               IN  DftSum(in, s * stride, dist, k, 0, count, direction)
          ELSE out[i]]

\* MEMCPY(dst, src, count, fft_complex_t)
MEMCPY(dst, src, count) ==
    [i \in 1..Len(dst) |-> IF i <= count THEN src[i] ELSE dst[i]]

\* the arrays the caller fills its input with: one unit sample at position p
Impulse(total, p) == [i \in 1..total |-> IF i = p THEN <<1, 0>> ELSE <<0, 0>>]
ZeroArray(total) == [i \in 1..total |-> <<0, 0>>]

NoPlan2d == [state |-> "none", in |-> NULL, out |-> NULL, tmpbuf |-> NULL,
             dims |-> <<0, 0>>, total |-> 0, direction |-> 0, in_place |-> FALSE]
NoCall2d == [op |-> "none", input |-> <<>>, calls |-> 0]

Plan2dInit ==
    /\ x2_plan = NoPlan2d
    /\ x2_mem = [b \in {"a", "b", "tmpbuf"} |-> <<>>]
    /\ x2_ret = NoCall2d

\* fft_plan_create_2d -> fft_plan_create_nd(2, {n_rows, n_cols}, in, out, ...)
\* on a caller's array holding data; in_place is in == out.
fft_plan_create_2d(n_rows, n_cols, in_place, direction, data) ==
    /\ x2_plan.state = "none"
    /\ LET total == n_rows * n_cols
       IN  /\ Len(data) = total
           /\ x2_plan' = [state |-> "live",
                          in |-> IF in_place THEN "a" ELSE "tmpbuf",
                          out |-> IF in_place THEN "tmpbuf" ELSE "b",
                          tmpbuf |-> "tmpbuf",
                          dims |-> <<n_rows, n_cols>>, total |-> total,
                          direction |-> direction, in_place |-> in_place]
           \* tmpbuf of an in-place plan is written before it is first read
           /\ x2_mem' = [a |-> data,
                         b |-> IF in_place THEN <<>> ELSE ZeroArray(total),
                         tmpbuf |-> IF in_place THEN ZeroArray(total) ELSE data]
           /\ x2_ret' = [NoCall2d EXCEPT !.op = "create", !.input = data]
    /\ UNCHANGED <<stack_vars, peb_vars, poly_vars, disp_vars, plan_vars, eik_vars, ord_vars, kern_vars, vol_vars, dev_vars, upd_vars, li_vars, cross_vars, mp_vars, tw_vars>>

\* the caller writes new data into its input array (_calc_aerial_image fills
\* efield before every execute)
fill(data) ==
    /\ x2_plan.state = "live"
    /\ x2_ret.op # "fill"
    /\ Len(data) = x2_plan.total
    /\ x2_mem' = [x2_mem EXCEPT !["a"] = data]
    /\ x2_ret' = [x2_ret EXCEPT !.op = "fill", !.input = data]
    /\ UNCHANGED x2_plan
    /\ UNCHANGED <<stack_vars, peb_vars, poly_vars, disp_vars, plan_vars, eik_vars, ord_vars, kern_vars, vol_vars, dev_vars, upd_vars, li_vars, cross_vars, mp_vars, tw_vars>>

\* fft_execute_2d
fft_execute_2d ==
    /\ x2_plan.state = "live"
    /\ x2_ret.calls < MaxCalls
    /\ LET dims == x2_plan.dims
           \* column-wise: count = dims[0], howMany = total / dims[0],
           \* stride = dims[0], dist = 1
           mem1 == [x2_mem EXCEPT ![x2_plan.out] =
                       MixedRadixOutput(x2_mem[x2_plan.in], x2_mem[x2_plan.out],
                                        dims[1], x2_plan.total \div dims[1],
                                        dims[1], 1, x2_plan.direction)]
           \* SWAP(plan->in, plan->out); the values saved in backup_in and
           \* backup_out and restored after the loop are the swapped ones
           in2 == x2_plan.out
           out2 == x2_plan.in
           \* row-wise: howMany = dims[0], count = dims[1], dist = dims[0],
           \* stride = 1; howMany2d = total / (count * howMany) = 1 pass
           count == dims[2]
           mem2 == [mem1 EXCEPT ![out2] =
                       MixedRadixOutput(mem1[in2], mem1[out2], count, dims[1],
                                        1, dims[1], x2_plan.direction)]
           mem3 == IF in2 # x2_plan.tmpbuf
                     THEN [mem2 EXCEPT ![in2] = MEMCPY(mem2[in2], mem2[x2_plan.tmpbuf], count)]
                     ELSE mem2
       IN  /\ x2_mem' = mem3
           /\ x2_plan' = [x2_plan EXCEPT !.in = in2, !.out = out2]
           /\ x2_ret' = [op |-> "execute", input |-> x2_mem["a"],
                         calls |-> x2_ret.calls + 1]
    /\ UNCHANGED <<stack_vars, peb_vars, poly_vars, disp_vars, plan_vars, eik_vars, ord_vars, kern_vars, vol_vars, dev_vars, upd_vars, li_vars, cross_vars, mp_vars, tw_vars>>

NextPlan2d ==
    \/ \E n_rows \in Dims2d, n_cols \in Dims2d, in_place \in BOOLEAN,
          direction \in {FFT_LITHO_FORWARD, FFT_LITHO_BACKWARD}, p \in {0, 1} :
          fft_plan_create_2d(n_rows, n_cols, in_place, direction,
                             Impulse(n_rows * n_cols, 1 + p * (n_rows * n_cols - 1)))
    \/ \E p \in {0, 1} :
          fill(Impulse(x2_plan.total, 1 + p * (x2_plan.total - 1)))
    \/ fft_execute_2d

\* the two-dimensional transform of an array: all columns, then all rows
Transform2d(x, dims, direction) ==
    LET cols == MixedRadixOutput(x, x, dims[1], dims[2], dims[1], 1, direction)
    IN  MixedRadixOutput(cols, cols, dims[2], dims[1], 1, dims[1], direction)

\* C21: an in-place 2D plan can be executed any number of times: every call
\* of fft_execute_2d replaces the contents of the caller's buffer by their
\* complete 2D transform.
C21_InPlaceEveryCall ==
    (x2_ret.op = "execute" /\ x2_plan.in_place)
        => x2_mem["a"] = Transform2d(x2_ret.input, x2_plan.dims, x2_plan.direction)

\* C25: for an out-of-place 2D plan, after an execution the output array
\* holds the complete 2D transform of what the input array contained when
\* the plan was executed, and the input array is unchanged.
C25_OutOfPlace ==
    (x2_ret.op = "execute" /\ ~x2_plan.in_place)
        => /\ x2_mem["b"] = Transform2d(x2_ret.input, x2_plan.dims, x2_plan.direction)
           /\ x2_mem["a"] = x2_ret.input

(***************************************************************************)
(* ===================== Modular exponentiation ========================== *)
(* src/OptolithiumC/libs/fourier/src/fourier.c                             *)
(*                                                                         *)
(* unsigned int is 32 bits wide.  The arguments tried are below 2^22, so   *)
(* that every value but the product of two of them fits the integers of    *)
(* the model; the product is formed in 16-bit halves.                      *)
(***************************************************************************)
HalfWord == 65536

\* (x * 2^16) % modulus, for x < 2^16 and modulus < 2^22
ShiftMod(x, modulus) == (((x * 256) % modulus) * 256) % modulus

\* The unsigned int expression (a * b) % modulus: the product is reduced
\* modulo 2^32 before the remainder is taken.  a, b, modulus < 2^22.
WrappedMulMod(a, b, modulus) ==
    LET a1 == a \div HalfWord
        a0 == a % HalfWord
        b1 == b \div HalfWord
        b0 == b % HalfWord
        \* a0 * b0 = hi0 * 2^16 + lo0, formed from two 24-bit products
        t == (a0 \div 256) * b0
        low == (t % 256) * 256 + (a0 % 256) * b0
        lo0 == low % HalfWord
        hi0 == (t \div 256) + (low \div HalfWord)
        \* bits 16..31 of the product; what lies above them is lost
        hi == (hi0 + ((a1 * b0) % HalfWord) + ((a0 * b1) % HalfWord)) % HalfWord
    IN  (ShiftMod(hi, modulus) + (lo0 % modulus)) % modulus

\* (WrappedMulMod on a machine whose products do not overflow)
RECURSIVE ExactMulMod(_, _, _)
ExactMulMod(a, b, modulus) ==
    IF b = 0 THEN 0
    ELSE LET d == (2 * ExactMulMod(a, b \div 2, modulus)) % modulus
         IN  IF b % 2 = 1 THEN (d + (a % modulus)) % modulus ELSE d

\* the while loop of modpow
RECURSIVE ModpowLoop(_, _, _, _)
ModpowLoop(result, base, exp, modulus) ==
    IF exp > 0
      THEN ModpowLoop(IF exp % 2 = 1 THEN WrappedMulMod(result, base, modulus) ELSE result,
                      WrappedMulMod(base, base, modulus), exp \div 2, modulus)
      ELSE result

\* modpow
modpow(base, exp, modulus) == ModpowLoop(1, base % modulus, exp, modulus)

\* the prime moduli and the bases tried
Moduli == {2, 3, 5, 23, 257, 65537}
Bases == {0, 1, 2, 3, 5, 22, 256, 65536, 65538}

NoModpow == [called |-> FALSE, base |-> 0, exp |-> 0, modulus |-> 2, result |-> 0]

ModpowInit == mp_ret = NoModpow

modpow_call(base, exp, modulus) ==
    /\ mp_ret' = [called |-> TRUE, base |-> base, exp |-> exp, modulus |-> modulus,
                  result |-> modpow(base, exp, modulus)]
    /\ UNCHANGED <<stack_vars, peb_vars, poly_vars, disp_vars, plan_vars, eik_vars, ord_vars, kern_vars, vol_vars, dev_vars, upd_vars, li_vars, cross_vars, x2_vars, tw_vars>>

NextModpow ==
    \E base \in Bases, exp \in 0..MaxExp, modulus \in Moduli :
        modpow_call(base, exp, modulus)

\* base^exp mod modulus, by exp multiplications without overflow
RECURSIVE PowerMod(_, _, _)
PowerMod(base, exp, modulus) ==
    IF exp = 0 THEN 1 % modulus
    ELSE ExactMulMod(PowerMod(base, exp - 1, modulus), base % modulus, modulus)

\* C30: modpow(base, exp, modulus) returns base^exp mod modulus for all
\* unsigned 32-bit base and exp and every prime modulus below 2^32 (so the
\* index sequences g^k mod N of fft_prime are permutations of 1..N-1).
C30_ModpowIsPower ==
    mp_ret.called
        => mp_ret.result = PowerMod(mp_ret.base, mp_ret.exp, mp_ret.modulus)

(***************************************************************************)
(* ========================= Twiddle cache =============================== *)
(* src/OptolithiumC/libs/fourier/src/fourier.c                             *)
(*                                                                         *)
(* A twiddle exp(2*pi*i * n/d) is the fraction n/d of a turn in lowest     *)
(* terms, <<n, d>> with 0 <= n < d.  TWIDDLE_ARRAY[j] is sin(2*pi*j/SIZE), *)
(* so the pair (TWIDDLE_ARRAY[real_indx], TWIDDLE_ARRAY[imag_indx]) with   *)
(* real_indx a quarter of the table further is the turn imag_indx/SIZE.    *)
(* A node of the tree is named by the child numbers leading to it.         *)
(***************************************************************************)
TWIDDLE_ARRAY_SIZE == 262144
FFT_USE_RADIX2_TABLE == 2

Turn(n, d) == <<(n % d) \div Gcd(n % d, d), d \div Gcd(n % d, d)>>

\* USE_RADIX2_TABLE(plan); table is the plan's FFT_USE_RADIX2_TABLE bit
USE_RADIX2_TABLE(count, table) ==
    TWIDDLE_ARRAY_SIZE % count = 0 /\ count < TWIDDLE_ARRAY_SIZE /\ table

\* _add_cache_as_table / _add_cache_as_calc: the value stored in entry k of
\* a node with cache_count entries
AddCache(cache_count, k, as_table) ==
    IF as_table THEN Turn((TWIDDLE_ARRAY_SIZE \div cache_count) * k, TWIDDLE_ARRAY_SIZE)
    ELSE Turn(k, cache_count)

\* (_cached that returns the entry as it is stored)
_cached_as_stored(value, dir) == value

\* _cached: the stored value, conjugated unless dir is FFT_LITHO_BACKWARD
_cached(value, dir) ==
    IF dir = FFT_LITHO_BACKWARD THEN value ELSE Turn(-value[1], value[2])

\* _calc_twiddle_by_table / _calc_twiddle_by_exp: the twiddle without a cache
DirectTwiddle(k, count, dir, table) ==
    IF USE_RADIX2_TABLE(count, table)
      THEN LET imag_indx == (TWIDDLE_ARRAY_SIZE \div count) * k
           IN  Turn(dir * imag_indx, TWIDDLE_ARRAY_SIZE)
      ELSE Turn(dir * k, count)

\* calc_primitive_root (N prime)
calc_primitive_root(N) ==
    IF N = 2 THEN 1
    ELSE IF N = 3 THEN 2
    ELSE LET primes == {p \in 2..(N - 1) : (N - 1) % p = 0 /\ is_prime(p)}
             is_generator(g) == \A p \in primes : modpow(g, (N - 1) \div p, N) # 1
         IN  IF \E g \in 2..(N - 1) : is_generator(g)
               THEN CHOOSE g \in 2..(N - 1) :
                        is_generator(g) /\ \A h \in 2..(g - 1) : ~is_generator(h)
               ELSE 0

\* What a transform does with the cache, in order: <<"alloc", path, count>>
\* is fft_cache_alloc_child for a plan of that length, and
\* <<"read", path, k, count, dir, table>> is calc_twiddle(k, plan, cache)
\* on the node at path by a plan of that length, direction and table flag.
\* step_table is the FFT_USE_RADIX2_TABLE bit of the uninitialised flags of
\* the step_plan of fft_split_radix.

\* fft_radix_2: stage = 2, 4, .. below count; group = 0 .. stage-1
RECURSIVE Radix2Events(_, _, _, _, _)
Radix2Events(stage, count, path, dir, table) ==
    IF stage >= count THEN <<>>
    ELSE [g \in 1..stage |->
             <<"read", path, (count * (g - 1)) \div (2 * stage), count, dir, table>>]
           \o Radix2Events(2 * stage, count, path, dir, table)

RECURSIVE MixedEvents(_, _, _, _, _)
RECURSIVE PrimeEvents(_, _, _, _, _)

\* fft_prime, one signal
PrimeEvents(count, path, dir, table, step_table) ==
    LET twiddles_generator == calc_primitive_root(count)
        conv == count - 1
    IN  [k \in 1..conv |->
            <<"read", path, modpow(twiddles_generator, k - 1, count), count, dir, table>>]
          \o <<<<"alloc", Append(path, 0), conv>>>>
          \o MixedEvents(conv, Append(path, 0), FFT_LITHO_FORWARD, FALSE, step_table)
          \o <<<<"alloc", Append(path, 1), conv>>>>
          \o MixedEvents(conv, Append(path, 1), FFT_LITHO_FORWARD, FALSE, step_table)
          \o MixedEvents(conv, Append(path, 1), FFT_LITHO_BACKWARD, FALSE, step_table)

\* fft_split_radix, one signal
SplitEvents(count, path, dir, table, step_table) ==
    LET f == fft_get_factor(count)
        prime_factor == f.factor
        mixed_factor == count \div prime_factor
        cols == Append(path, 0)
        rows == Append(path, 1)
    IN  (IF prime_factor = 1 \/ f.indx # -1 THEN <<>>
         ELSE IF prime_factor % 2 = 0
           THEN <<<<"alloc", cols, prime_factor>>>>
                  \o Radix2Events(2, prime_factor, cols, dir, step_table)
           ELSE <<<<"alloc", cols, prime_factor>>>>
                  \o PrimeEvents(prime_factor, cols, dir, step_table, step_table))
          \o [i \in 1..((mixed_factor - 1) * (prime_factor - 1)) |->
                 LET c == 1 + ((i - 1) \div (prime_factor - 1))
                     r == 1 + ((i - 1) % (prime_factor - 1))
                 IN  <<"read", path, r * c, count, dir, table>>]
          \o <<<<"alloc", rows, mixed_factor>>>>
          \o MixedEvents(mixed_factor, rows, dir, step_table, step_table)

\* fft_mixed_radix
MixedEvents(count, path, dir, table, step_table) ==
    CASE Dispatch(count) = "fft_radix_2"     -> Radix2Events(2, count, path, dir, table)
      [] Dispatch(count) = "fft_prime"       -> PrimeEvents(count, path, dir, table, step_table)
      [] Dispatch(count) = "fft_split_radix" -> SplitEvents(count, path, dir, table, step_table)
      [] OTHER                               -> <<>>

\* fft_cache_create_node: count entries, none calculated
NewNode(count) == [count |-> count, data |-> [k \in {} |-> <<0, 1>>]]

\* The events applied to the tree one after the other.  fft_cache_alloc_child
\* creates the child only when there is none, so a node has the count of the
\* first alloc of its path; calc_twiddle fills entry k when it is not
\* calculated, so an entry has the value its first read stored, and returns
\* _cached(cache, k, plan->direction).  A read is recorded with the node's
\* count, the value returned (or the note that k is not an entry of the
\* node) and the direction of the read that filled the entry.
ApplyEvents(events, cache) ==
    LET First(S) == CHOOSE i \in S : \A j \in S : i <= j
        allocs == {i \in 1..Len(events) : events[i][1] = "alloc"}
        rds == {i \in 1..Len(events) : events[i][1] = "read"}
        paths == DOMAIN cache \cup {events[i][2] : i \in allocs}
        CountOfNode(path) ==
            IF path \in DOMAIN cache THEN cache[path].count
            ELSE events[First({i \in allocs : events[i][2] = path})][3]
        Entry(path, k) ==
            IF path \in DOMAIN cache /\ k \in DOMAIN cache[path].data
              THEN cache[path].data[k]
              ELSE LET e == events[First({i \in rds : events[i][2] = path
                                                       /\ events[i][3] = k})]
                   IN  [value |-> AddCache(CountOfNode(path), k,
                                           USE_RADIX2_TABLE(e[4], e[6])),
                        by |-> e[5]]
        Read(e) ==
            [path |-> e[2], k |-> e[3], count |-> e[4], dir |-> e[5], table |-> e[6],
             cache_count |-> CountOfNode(e[2]),
             twiddle |-> IF e[3] < CountOfNode(e[2])
                           THEN _cached(Entry(e[2], e[3]).value, e[5])
                           ELSE <<"data", e[3]>>,
             filled_by |-> Entry(e[2], e[3]).by]
    IN  [cache |-> [path \in paths |->
                      [count |-> CountOfNode(path),
                       data |-> [k \in (IF path \in DOMAIN cache
                                          THEN DOMAIN cache[path].data ELSE {})
                                       \cup {events[i][3] : i \in {j \in rds :
                                                                events[j][2] = path}}
                                   |-> Entry(path, k)]]],
         reads |-> {Read(events[i]) : i \in rds}]

\* plan lengths: powers of two, primes, products with and without a radix
CacheLengths == {1, 8, 16, 23, 29, 46, 58, 529}

NoTwiddlePlan == [state |-> "none", count |-> 0, direction |-> 0, flags |-> 0]

TwiddleInit ==
    /\ tw_plan = NoTwiddlePlan
    /\ tw_cache = [p \in {} |-> NewNode(0)]
    /\ tw_ret = [calls |-> 0, reads |-> {}]

\* fft_plan_create_1d: fft_cache_init creates the root with FFT_USE_CACHE
fft_plan_create_1d(count, direction, flags) ==
    /\ tw_plan.state = "none"
    /\ tw_plan' = [state |-> "live", count |-> count, direction |-> direction,
                   flags |-> flags]
    /\ tw_cache' = IF flags % 2 = FFT_USE_CACHE
                     THEN [p \in {<<>>} |-> NewNode(count)]
                     ELSE tw_cache
    /\ UNCHANGED tw_ret
    /\ UNCHANGED <<stack_vars, peb_vars, poly_vars, disp_vars, plan_vars, eik_vars, ord_vars, kern_vars, vol_vars, dev_vars, upd_vars, li_vars, cross_vars, x2_vars, mp_vars>>

\* fft_execute_1d: fft_mixed_radix(plan, plan->cache[0]); without a root
\* every fft_cache_alloc_child returns NULL and no twiddle is read from a node
fft_execute_1d(step_table) ==
    /\ tw_plan.state = "live"
    /\ tw_ret.calls < MaxCalls
    /\ LET table == (tw_plan.flags \div FFT_USE_RADIX2_TABLE) % 2 = 1
           after == IF <<>> \in DOMAIN tw_cache
                      THEN LET events == MixedEvents(tw_plan.count, <<>>,
                                                     tw_plan.direction, table, step_table)
                           IN  ApplyEvents(events, tw_cache)
                      ELSE [cache |-> tw_cache, reads |-> {}]
       IN  /\ tw_cache' = after.cache
           /\ tw_ret' = [calls |-> tw_ret.calls + 1, reads |-> after.reads]
    /\ UNCHANGED tw_plan
    /\ UNCHANGED <<stack_vars, peb_vars, poly_vars, disp_vars, plan_vars, eik_vars, ord_vars, kern_vars, vol_vars, dev_vars, upd_vars, li_vars, cross_vars, x2_vars, mp_vars>>

NextTwiddle ==
    \/ \E count \in CacheLengths, flags \in 0..3,
          direction \in {FFT_LITHO_FORWARD, FFT_LITHO_BACKWARD} :
          fft_plan_create_1d(count, direction, flags)
    \/ \E step_table \in BOOLEAN : fft_execute_1d(step_table)

\* C29: every twiddle read through a cache node equals the twiddle computed
\* directly for the reading plan (index k, length N, direction): the node is
\* read only by plans whose length is its entry count, every k read is below
\* that count, and an entry filled in one direction is right when it is read
\* in the other.
C29_CachedEqualsDirect ==
    \A r \in tw_ret.reads :
        /\ r.cache_count = r.count
        /\ r.k < r.cache_count
        /\ r.twiddle = DirectTwiddle(r.k, r.count, r.dir, r.table)

\* a Rader plan has read, backwards, an entry that a forward read had filled
C29_Witness ==
    \E r \in tw_ret.reads :
        /\ r.dir = FFT_LITHO_BACKWARD /\ r.filled_by = FFT_LITHO_FORWARD
        /\ r.k # 0 /\ r.path # <<>>

(***************************************************************************)
(* Specifications                                                          *)
(***************************************************************************)
Init ==
    /\ StackInit
    /\ PebInit
    /\ PolyInit
    /\ DispInit
    /\ PlanInit
    /\ EikInit
    /\ OrdInit
    /\ KernInit
    /\ VolInit
    /\ DevInit
    /\ UpdInit
    /\ InterpInit
    /\ CrossInit
    /\ Plan2dInit
    /\ ModpowInit
    /\ TwiddleInit

SpecStack == Init /\ [][NextStack]_vars
SpecPeb == Init /\ [][NextPeb]_vars
SpecPoly == Init /\ [][NextPoly]_vars
SpecDisp == Init /\ [][NextDisp]_vars
SpecPlan == Init /\ [][NextPlan]_vars
SpecEik == Init /\ [][NextEik]_vars
SpecOrd == Init /\ [][NextOrd]_vars
SpecKern == Init /\ [][NextKern]_vars
SpecVol == Init /\ [][NextVol]_vars
SpecDev == Init /\ [][NextDev]_vars
SpecUpd == Init /\ [][NextUpd]_vars
SpecInterp == Init /\ [][NextInterp]_vars
SpecCross == Init /\ [][NextCross]_vars
SpecPlan2d == Init /\ [][NextPlan2d]_vars
SpecModpow == Init /\ [][NextModpow]_vars
SpecTwiddle == Init /\ [][NextTwiddle]_vars

=============================================================================
